---------------------------- MODULE Spec2Model ----------------------------
(***************************************************************************)
(* BITSCAN bitset engine: dense scanning bitsets (BBScan), sparse bitsets  *)
(* (BitSetSp) and sparse scanning bitsets (BBScanSp).                      *)
(*                                                                         *)
(* A 64-bit block is modelled as the set of the offsets (0..63) of its     *)
(* 1-bits; AND is intersection, OR is union, ~ is complement in 0..63.     *)
(* A dense bitset is a function from block index to block, a sparse bitset *)
(* a sequence of records [idx, bb].  Positions in a record vector are      *)
(* 0-based as in the code; the record at position p is s[p + 1].           *)
(***************************************************************************)
EXTENDS Integers, Sequences, FiniteSets

VARIABLES
    nBB,    \* block capacity of the bitsets of this run (BitSet::nBB_)
    vbb,    \* dense bitset A: blocks (BitSet::vBB_)
    obb,    \* dense bitset B, the argument of the dual-bitset steps
    scan,   \* cursor of dense A (BBScan::scan_)
    sp,     \* sparse bitset A: record vector (BitSetSp::vBB_)
    osp,    \* sparse bitset B, the argument of the dual-bitset steps
    sscan,  \* cursor of sparse A (BBScanSp::scan_)
    entry,  \* the call that began the scan: "init_scan", "init_scan_first"
            \* (the overload with a firstBit), "NONE" before the first call
    mode,   \* scan type of the last init_scan call, "NONE" before the first
    first,  \* firstBit argument of the last call (noBit if none)
    last,   \* lastBit argument of the last call (noBit if none)
    rc,     \* outcome of the last init_scan call: "0" and "-1" are the
            \* values returned, "BitScanError" the exception thrown, "exit"
            \* the call of std::exit
    out,    \* values returned by the scan steps on dense A since init_scan
    sout,   \* values returned by the scan steps on sparse A since init_scan
    vbb0,   \* history: blocks of dense A when init_scan was called
    obb0,   \* history: blocks of dense B when init_scan was called
    sp0,    \* history: records of sparse A before the last call
    osp0,   \* history: records of sparse B when init_scan was called
    sscan0, \* history: cursor of sparse A before the last init_scan call
    m_BBL,  \* low sentinel of dense A (BBSentinel::m_BBL)
    m_BBH,  \* high sentinel of dense A (BBSentinel::m_BBH)
    other,  \* the second object of a move or a copy: a record of capacity,
            \* blocks, cursor and sentinels; <<>> in the runs without one
    win0    \* history: <<m_BBL, m_BBH>> before the last call

vars == <<nBB, vbb, obb, scan, sp, osp, sscan, entry, mode, first, last, rc,
          out, sout, vbb0, obb0, sp0, osp0, sscan0, m_BBL, m_BBH, other,
          win0>>

---------------------------------------------------------------------------
(* Program constants *)

noBit == -1
EMPTY_ELEM == -1
WORD_SIZE == 64
MASK_LIM == WORD_SIZE + 1

ScanTypes == {"NON_DESTRUCTIVE", "NON_DESTRUCTIVE_REVERSE",
              "DESTRUCTIVE", "DESTRUCTIVE_REVERSE"}

(* Bounds of the model *)

MaxBlocks == 3          \* block capacities 1..MaxBlocks
MaxDualBlocks == 2      \* block capacities of the two-bitset runs
MaxSparseBlocks == 2    \* block capacities of the runs of one sparse bitset
MaxTail == 2            \* scan steps still taken after noBit was returned

\* offsets at which the initial bitsets may hold a bit
BitOffs == {0, 63}
\* offsets of the firstBit arguments tried
StartOffs == {0, 31, 63}

---------------------------------------------------------------------------
(* Words and tables *)

ALL_ONES == 0 .. (WORD_SIZE - 1)
ALL_ZEROS == {}

Min(S) == CHOOSE x \in S : \A y \in S : x <= y
Max(S) == CHOOSE x \in S : \A y \in S : x >= y

WDIV(i) == i \div WORD_SIZE
WMUL(i) == i * WORD_SIZE

Not(w) == ALL_ONES \ w
Xor(a, b) == (a \ b) \cup (b \ a)

\* Tables::mask[c]
mask(c) == {c}

\* Tables::mask_low[c], c in 0..64: the bits below c; index 64 is all ones
mask_low(c) ==
    IF c = WORD_SIZE THEN ALL_ONES
    ELSE UNION {mask(j) : j \in {k \in 0 .. (WORD_SIZE - 1) : k < c}}

\* Tables::mask_high[c], c in 0..65
mask_high_incl(c) ==
    IF c = MASK_LIM THEN ALL_ONES
    ELSE IF c = WORD_SIZE THEN ALL_ZEROS
    ELSE Not(mask_low(c))

mask_high(c) ==
    IF c = MASK_LIM THEN ALL_ONES
    ELSE IF c = WORD_SIZE THEN ALL_ZEROS
    ELSE Xor(Not(mask_low(c)), mask(c))

\* _BitScanForward64 / _BitScanReverse64: position of the lowest / highest
\* 1-bit; the callers test the word for zero first
lsb(w) == Min(w)
msb(w) == Max(w)

\* the elements of a set of integers in ascending / descending order
RECURSIVE AscSeq(_)
AscSeq(S) == IF S = {} THEN <<>> ELSE <<Min(S)>> \o AscSeq(S \ {Min(S)})

RECURSIVE DescSeq(_)
DescSeq(S) == IF S = {} THEN <<>> ELSE <<Max(S)>> \o DescSeq(S \ {Max(S)})

---------------------------------------------------------------------------
(* Dense bitsets *)

Blocks(n) == 0 .. (n - 1)

\* the set of bit indices a dense bitset holds
Bits(v) == UNION {{WMUL(i) + o : o \in v[i]} : i \in DOMAIN v}

\* the dense bitset of capacity n holding the bits S
DenseOf(n, S) == [i \in Blocks(n) |-> {o \in ALL_ONES : WMUL(i) + o \in S}]

Universe(n) == {WMUL(i) + o : i \in Blocks(n), o \in BitOffs}
StartBits(n) == {WMUL(i) + o : i \in Blocks(n), o \in StartOffs}

\* scan_t(): the cursor of a bitset no scan was initialised on
scan_t == [bbi |-> noBit, pos |-> MASK_LIM]

\* first block index in lo..hi that is not zero, noBit if there is none
FirstNonZero(v, lo, hi) ==
    LET S == {i \in lo .. hi : v[i] # ALL_ZEROS}
    IN  IF S = {} THEN noBit ELSE Min(S)

LastNonZero(v, lo, hi) ==
    LET S == {i \in lo .. hi : v[i] # ALL_ZEROS}
    IN  IF S = {} THEN noBit ELSE Max(S)

\* BitSet::size(): the sum of the population counts of the blocks
RECURSIVE PopSum(_, _)
PopSum(v, n) == IF n = 0 THEN 0 ELSE Cardinality(v[n - 1]) + PopSum(v, n - 1)

Size(n, v) == PopSum(v, n)

EraseAt_keep(v, i, p) == v

\* vBB_[i] &= ~Tables::mask[p]
EraseAt(v, i, p) == [v EXCEPT ![i] = @ \cap Not(mask(p))]

BBScan_init_scan(n, sc, sct) ==
    CASE sct = "NON_DESTRUCTIVE" -> [bbi |-> 0, pos |-> MASK_LIM]
      [] sct = "NON_DESTRUCTIVE_REVERSE" -> [bbi |-> n - 1, pos |-> WORD_SIZE]
      [] sct = "DESTRUCTIVE" -> [sc EXCEPT !.bbi = 0]
      [] sct = "DESTRUCTIVE_REVERSE" -> [sc EXCEPT !.bbi = n - 1]

BBScan_init_scan_first_block_only(n, sc, firstBit, sct) ==
    IF firstBit = noBit THEN BBScan_init_scan(n, sc, sct)
    ELSE [BBScan_init_scan(n, sc, sct) EXCEPT !.bbi = WDIV(firstBit)]

BBScan_init_scan_first(n, sc, firstBit, sct) ==
    IF firstBit = noBit THEN BBScan_init_scan(n, sc, sct)
    ELSE LET bbh == WDIV(firstBit)
         IN  IF sct \in {"NON_DESTRUCTIVE", "NON_DESTRUCTIVE_REVERSE"}
             THEN [bbi |-> bbh, pos |-> firstBit - WMUL(bbh)]
             ELSE [sc EXCEPT !.bbi = bbh]

\* The scan steps return [ret, scan, vbb, other]: the value returned, the
\* cursor, the blocks of the scanned bitset and the blocks of the argument.

BBScan_next_bit_del(n, v, sc, o) ==
    LET i == FirstNonZero(v, sc.bbi, n - 1)
    IN  IF i # noBit
        THEN [ret |-> lsb(v[i]) + WMUL(i), scan |-> [sc EXCEPT !.bbi = i],
              vbb |-> EraseAt(v, i, lsb(v[i])), other |-> o]
        ELSE [ret |-> noBit, scan |-> sc, vbb |-> v, other |-> o]

BBScan_next_bit_del_dual(n, v, sc, o) ==
    LET i == FirstNonZero(v, sc.bbi, n - 1)
    IN  IF i # noBit
        THEN [ret |-> lsb(v[i]) + WMUL(i), scan |-> [sc EXCEPT !.bbi = i],
              vbb |-> EraseAt(v, i, lsb(v[i])),
              other |-> EraseAt(o, i, lsb(v[i]))]
        ELSE [ret |-> noBit, scan |-> sc, vbb |-> v, other |-> o]

\* next_bit with a cursor that goes back to the first block at the end
BBScan_next_bit_restart(n, v, sc, o) ==
    LET w == v[sc.bbi] \cap mask_high(sc.pos)
    IN  IF w # ALL_ZEROS
        THEN [ret |-> lsb(w) + WMUL(sc.bbi), scan |-> [sc EXCEPT !.pos = lsb(w)],
              vbb |-> v, other |-> o]
        ELSE LET i == FirstNonZero(v, sc.bbi + 1, n - 1)
             IN  IF i # noBit
                 THEN [ret |-> lsb(v[i]) + WMUL(i),
                       scan |-> [bbi |-> i, pos |-> lsb(v[i])],
                       vbb |-> v, other |-> o]
                 ELSE [ret |-> noBit, scan |-> [bbi |-> 0, pos |-> MASK_LIM],
                       vbb |-> v, other |-> o]

BBScan_next_bit(n, v, sc, o) ==
    LET w == v[sc.bbi] \cap mask_high(sc.pos)
    IN  IF w # ALL_ZEROS
        THEN [ret |-> lsb(w) + WMUL(sc.bbi), scan |-> [sc EXCEPT !.pos = lsb(w)],
              vbb |-> v, other |-> o]
        ELSE LET i == FirstNonZero(v, sc.bbi + 1, n - 1)
             IN  IF i # noBit
                 THEN [ret |-> lsb(v[i]) + WMUL(i),
                       scan |-> [bbi |-> i, pos |-> lsb(v[i])],
                       vbb |-> v, other |-> o]
                 ELSE [ret |-> noBit, scan |-> sc, vbb |-> v, other |-> o]

BBScan_next_bit_dual(n, v, sc, o) ==
    LET w == v[sc.bbi] \cap mask_high(sc.pos)
    IN  IF w # ALL_ZEROS
        THEN [ret |-> lsb(w) + WMUL(sc.bbi), scan |-> [sc EXCEPT !.pos = lsb(w)],
              vbb |-> v, other |-> EraseAt(o, sc.bbi, lsb(w))]
        ELSE LET i == FirstNonZero(v, sc.bbi + 1, n - 1)
             IN  IF i # noBit
                 THEN [ret |-> lsb(v[i]) + WMUL(i),
                       scan |-> [bbi |-> i, pos |-> lsb(v[i])],
                       vbb |-> v, other |-> EraseAt(o, i, lsb(v[i]))]
                 ELSE [ret |-> noBit, scan |-> sc, vbb |-> v, other |-> o]

BBScan_prev_bit(n, v, sc, o) ==
    LET w == v[sc.bbi] \cap mask_low(sc.pos)
    IN  IF w # ALL_ZEROS
        THEN [ret |-> msb(w) + WMUL(sc.bbi), scan |-> [sc EXCEPT !.pos = msb(w)],
              vbb |-> v, other |-> o]
        ELSE LET i == LastNonZero(v, 0, sc.bbi - 1)
             IN  IF i # noBit
                 THEN [ret |-> msb(v[i]) + WMUL(i),
                       scan |-> [bbi |-> i, pos |-> msb(v[i])],
                       vbb |-> v, other |-> o]
                 ELSE [ret |-> noBit, scan |-> sc, vbb |-> v, other |-> o]

BBScan_prev_bit_dual_block0(n, v, sc, o) ==
    LET w == v[sc.bbi] \cap mask_low(sc.pos)
    IN  IF w # ALL_ZEROS
        THEN [ret |-> msb(w) + WMUL(sc.bbi), scan |-> [sc EXCEPT !.pos = msb(w)],
              vbb |-> v, other |-> EraseAt(o, 0, msb(w))]
        ELSE LET i == LastNonZero(v, 0, sc.bbi - 1)
             IN  IF i # noBit
                 THEN [ret |-> msb(v[i]) + WMUL(i),
                       scan |-> [bbi |-> i, pos |-> msb(v[i])],
                       vbb |-> v, other |-> EraseAt(o, 0, msb(v[i]))]
                 ELSE [ret |-> noBit, scan |-> sc, vbb |-> v, other |-> o]

BBScan_prev_bit_dual(n, v, sc, o) ==
    LET w == v[sc.bbi] \cap mask_low(sc.pos)
    IN  IF w # ALL_ZEROS
        THEN [ret |-> msb(w) + WMUL(sc.bbi), scan |-> [sc EXCEPT !.pos = msb(w)],
              vbb |-> v, other |-> EraseAt(o, sc.bbi, msb(w))]
        ELSE LET i == LastNonZero(v, 0, sc.bbi - 1)
             IN  IF i # noBit
                 THEN [ret |-> msb(v[i]) + WMUL(i),
                       scan |-> [bbi |-> i, pos |-> msb(v[i])],
                       vbb |-> v, other |-> EraseAt(o, i, msb(v[i]))]
                 ELSE [ret |-> noBit, scan |-> sc, vbb |-> v, other |-> o]

BBScan_prev_bit_del_lsb(n, v, sc, o) ==
    LET i == LastNonZero(v, 0, sc.bbi)
    IN  IF i # noBit
        THEN [ret |-> lsb(v[i]) + WMUL(i), scan |-> [sc EXCEPT !.bbi = i],
              vbb |-> EraseAt(v, i, lsb(v[i])), other |-> o]
        ELSE [ret |-> noBit, scan |-> sc, vbb |-> v, other |-> o]

BBScan_prev_bit_del(n, v, sc, o) ==
    LET i == LastNonZero(v, 0, sc.bbi)
    IN  IF i # noBit
        THEN [ret |-> msb(v[i]) + WMUL(i), scan |-> [sc EXCEPT !.bbi = i],
              vbb |-> EraseAt(v, i, msb(v[i])), other |-> o]
        ELSE [ret |-> noBit, scan |-> sc, vbb |-> v, other |-> o]

BBScan_prev_bit_del_dual(n, v, sc, o) ==
    LET i == LastNonZero(v, 0, sc.bbi)
    IN  IF i # noBit
        THEN [ret |-> msb(v[i]) + WMUL(i), scan |-> [sc EXCEPT !.bbi = i],
              vbb |-> EraseAt(v, i, msb(v[i])),
              other |-> EraseAt(o, i, msb(v[i]))]
        ELSE [ret |-> noBit, scan |-> sc, vbb |-> v, other |-> o]

---------------------------------------------------------------------------
(* Sparse bitsets *)

pBlock_t(i, w) == [idx |-> i, bb |-> w]

\* the set of bit indices a sparse bitset holds
SpBits(s) == UNION {{WMUL(s[k].idx) + o : o \in s[k].bb} : k \in DOMAIN s}

\* the sparse bitset with one record for each block index of J, in
\* ascending order of index, holding the bits of S
SparseOf(J, S) ==
    LET ix == AscSeq(J)
    IN  [k \in 1 .. Len(ix) |->
            pBlock_t(ix[k], {o \in ALL_ONES : WMUL(ix[k]) + o \in S})]

\* the sparse bitsets of capacity n: any set of records, bits at BitOffs
SparseSets(n) ==
    {SparseOf(J, S) : J \in SUBSET Blocks(n), S \in SUBSET Universe(n)}

\* std::lower_bound over the records with the comparison a.idx_ < b.idx_:
\* the bisection of the half-open range of positions [lo, lo + len)
RECURSIVE Bisect(_, _, _, _)
Bisect(s, blockID, lo, len) ==
    IF len <= 0 THEN lo
    ELSE LET half == len \div 2
             mid == lo + half
         IN  IF s[mid + 1].idx < blockID
             THEN Bisect(s, blockID, mid + 1, len - half - 1)
             ELSE Bisect(s, blockID, lo, half)

lower_bound(s, blockID) == Bisect(s, blockID, 0, Len(s))

BitSetSp_find_block_pos(s, blockID) ==
    LET it == lower_bound(s, blockID)
    IN  IF it # Len(s)
        THEN [first |-> s[it + 1].idx = blockID, second |-> it]
        ELSE [first |-> FALSE, second |-> EMPTY_ELEM]

\* BitSetSp::find_block(int blockID) const: the block of the record found,
\* and BBObject::noBit (the int -1) converted to the BITBOARD it returns,
\* a word of 64 ones, when no record has the index
BitSetSp_find_block(s, blockID) ==
    LET it == lower_bound(s, blockID)
    IN  IF it # Len(s) /\ s[it + 1].idx = blockID
        THEN s[it + 1].bb
        ELSE ALL_ONES

\* BitSetSp::erase_bit(int bit): clears the bit if its block has a record
BitSetSp_erase_bit(s, bit) ==
    [k \in DOMAIN s |->
        IF s[k].idx = WDIV(bit)
        THEN [s[k] EXCEPT !.bb = @ \cap Not(mask(bit - WMUL(WDIV(bit))))]
        ELSE s[k]]

\* What a read outside an array yields is not defined; g.rec is the record
\* and g.w the table entry such a read produces.
Garbage ==
    [w : {ALL_ZEROS, ALL_ONES},
     rec : {pBlock_t(0, ALL_ZEROS), pBlock_t(0, mask(0))}]

\* vBB_[i] of a record vector
ReadRec(s, i, g) == IF i \in 0 .. (Len(s) - 1) THEN s[i + 1] ELSE g.rec

\* Tables::mask_low[c], an array of WORD_SIZE + 1 entries
ReadMaskLow(c, g) == IF c \in 0 .. WORD_SIZE THEN mask_low(c) ELSE g.w

\* first / last position in lo..hi whose record has a 1-bit, noBit if none
FirstNonZeroRec(s, lo, hi) ==
    LET S == {i \in lo .. hi : s[i + 1].bb # ALL_ZEROS}
    IN  IF S = {} THEN noBit ELSE Min(S)

LastNonZeroRec(s, lo, hi) ==
    LET S == {i \in lo .. hi : s[i + 1].bb # ALL_ZEROS}
    IN  IF S = {} THEN noBit ELSE Max(S)

\* vBB_[i].bb_ &= ~Tables::mask[p]
EraseAtRec(s, i, p) == [s EXCEPT ![i + 1].bb = @ \cap Not(mask(p))]

\* init_scan returns [rc, scan]: the outcome of the call and the cursor
BBScanSp_init_scan_unchecked(s, sc, sct) ==
    CASE sct = "NON_DESTRUCTIVE" ->
             [rc |-> "0", scan |-> [bbi |-> 0, pos |-> MASK_LIM]]
      [] sct = "NON_DESTRUCTIVE_REVERSE" ->
             [rc |-> "0", scan |-> [bbi |-> Len(s) - 1, pos |-> WORD_SIZE]]
      [] sct = "DESTRUCTIVE" ->
             [rc |-> "0", scan |-> [sc EXCEPT !.bbi = 0]]
      [] sct = "DESTRUCTIVE_REVERSE" ->
             [rc |-> "0", scan |-> [sc EXCEPT !.bbi = Len(s) - 1]]

BBScanSp_init_scan(s, sc, sct) ==
    IF s = <<>> THEN [rc |-> "BitScanError", scan |-> sc]
    ELSE CASE sct = "NON_DESTRUCTIVE" ->
                  [rc |-> "0", scan |-> [bbi |-> 0, pos |-> MASK_LIM]]
           [] sct = "NON_DESTRUCTIVE_REVERSE" ->
                  [rc |-> "0",
                   scan |-> [bbi |-> Len(s) - 1, pos |-> WORD_SIZE]]
           [] sct = "DESTRUCTIVE" ->
                  [rc |-> "0", scan |-> [sc EXCEPT !.bbi = 0]]
           [] sct = "DESTRUCTIVE_REVERSE" ->
                  [rc |-> "0", scan |-> [sc EXCEPT !.bbi = Len(s) - 1]]

BBScanSp_init_scan_first(s, sc, firstBit, sct) ==
    IF s = <<>> THEN [rc |-> "BitScanError", scan |-> sc]
    ELSE IF firstBit = noBit THEN BBScanSp_init_scan(s, sc, sct)
    ELSE LET bbL == WDIV(firstBit)
             p == BitSetSp_find_block_pos(s, bbL)
         IN  IF p.second = noBit THEN [rc |-> "-1", scan |-> sc]
             ELSE IF sct \in {"NON_DESTRUCTIVE", "NON_DESTRUCTIVE_REVERSE"}
             THEN [rc |-> "0",
                   scan |-> [bbi |-> p.second,
                             pos |-> IF p.first THEN firstBit - WMUL(bbL)
                                     ELSE MASK_LIM]]
             ELSE [rc |-> "exit", scan |-> sc]

\* The scan steps return [ret, scan, vbb, other] as the dense ones do; g is
\* what the reads outside an array yield, if the step makes any.

BBScanSp_next_bit(s, sc, o, g) ==
    LET cur == ReadRec(s, sc.bbi, g)
        w == cur.bb \cap mask_high(sc.pos)
    IN  IF w # ALL_ZEROS
        THEN [ret |-> lsb(w) + WMUL(cur.idx), scan |-> [sc EXCEPT !.pos = lsb(w)],
              vbb |-> s, other |-> o]
        ELSE LET i == FirstNonZeroRec(s, sc.bbi + 1, Len(s) - 1)
             IN  IF i # noBit
                 THEN [ret |-> lsb(s[i + 1].bb) + WMUL(s[i + 1].idx),
                       scan |-> [bbi |-> i, pos |-> lsb(s[i + 1].bb)],
                       vbb |-> s, other |-> o]
                 ELSE [ret |-> noBit, scan |-> sc, vbb |-> s, other |-> o]

BBScanSp_next_bit_dual(s, sc, o, g) ==
    LET cur == ReadRec(s, sc.bbi, g)
        w == cur.bb \cap mask_high(sc.pos)
    IN  IF w # ALL_ZEROS
        THEN [ret |-> lsb(w) + WMUL(cur.idx), scan |-> [sc EXCEPT !.pos = lsb(w)],
              vbb |-> s, other |-> BitSetSp_erase_bit(o, lsb(w))]
        ELSE LET i == FirstNonZeroRec(s, sc.bbi + 1, Len(s) - 1)
             IN  IF i # noBit
                 THEN [ret |-> lsb(s[i + 1].bb) + WMUL(s[i + 1].idx),
                       scan |-> [bbi |-> i, pos |-> lsb(s[i + 1].bb)],
                       vbb |-> s,
                       other |-> BitSetSp_erase_bit(o, lsb(s[i + 1].bb))]
                 ELSE [ret |-> noBit, scan |-> sc, vbb |-> s, other |-> o]

BBScanSp_prev_bit(s, sc, o, g) ==
    LET cur == ReadRec(s, sc.bbi, g)
        w == cur.bb \cap ReadMaskLow(sc.pos, g)
    IN  IF w # ALL_ZEROS
        THEN [ret |-> msb(w) + WMUL(cur.idx), scan |-> [sc EXCEPT !.pos = msb(w)],
              vbb |-> s, other |-> o]
        ELSE LET i == LastNonZeroRec(s, 0, sc.bbi - 1)
             IN  IF i # noBit
                 THEN [ret |-> msb(s[i + 1].bb) + WMUL(s[i + 1].idx),
                       scan |-> [bbi |-> i, pos |-> msb(s[i + 1].bb)],
                       vbb |-> s, other |-> o]
                 ELSE [ret |-> noBit, scan |-> sc, vbb |-> s, other |-> o]

BBScanSp_prev_bit_dual(s, sc, o, g) ==
    LET cur == ReadRec(s, sc.bbi, g)
        w == cur.bb \cap ReadMaskLow(sc.pos, g)
    IN  IF w # ALL_ZEROS
        THEN [ret |-> msb(w) + WMUL(cur.idx), scan |-> [sc EXCEPT !.pos = msb(w)],
              vbb |-> s, other |-> BitSetSp_erase_bit(o, msb(w))]
        ELSE LET i == LastNonZeroRec(s, 0, sc.bbi - 1)
             IN  IF i # noBit
                 THEN [ret |-> msb(s[i + 1].bb) + WMUL(s[i + 1].idx),
                       scan |-> [bbi |-> i, pos |-> msb(s[i + 1].bb)],
                       vbb |-> s,
                       other |-> BitSetSp_erase_bit(o, msb(s[i + 1].bb))]
                 ELSE [ret |-> noBit, scan |-> sc, vbb |-> s, other |-> o]

BBScanSp_next_bit_del(s, sc, o, g) ==
    LET i == FirstNonZeroRec(s, sc.bbi, Len(s) - 1)
    IN  IF i # noBit
        THEN [ret |-> lsb(s[i + 1].bb) + WMUL(s[i + 1].idx),
              scan |-> [sc EXCEPT !.bbi = i],
              vbb |-> EraseAtRec(s, i, lsb(s[i + 1].bb)), other |-> o]
        ELSE [ret |-> noBit, scan |-> sc, vbb |-> s, other |-> o]

BBScanSp_next_bit_del_dual(s, sc, o, g) ==
    LET i == FirstNonZeroRec(s, sc.bbi, Len(s) - 1)
    IN  IF i # noBit
        THEN [ret |-> lsb(s[i + 1].bb) + WMUL(s[i + 1].idx),
              scan |-> [sc EXCEPT !.bbi = i],
              vbb |-> EraseAtRec(s, i, lsb(s[i + 1].bb)),
              other |-> BitSetSp_erase_bit(o, lsb(s[i + 1].bb))]
        ELSE [ret |-> noBit, scan |-> sc, vbb |-> s, other |-> o]

BBScanSp_prev_bit_del_lsb(s, sc, o, g) ==
    LET i == LastNonZeroRec(s, 0, sc.bbi)
    IN  IF i # noBit
        THEN [ret |-> lsb(s[i + 1].bb) + WMUL(s[i + 1].idx),
              scan |-> [sc EXCEPT !.bbi = i],
              vbb |-> EraseAtRec(s, i, lsb(s[i + 1].bb)), other |-> o]
        ELSE [ret |-> noBit, scan |-> sc, vbb |-> s, other |-> o]

BBScanSp_prev_bit_del(s, sc, o, g) ==
    LET i == LastNonZeroRec(s, 0, sc.bbi)
    IN  IF i # noBit
        THEN [ret |-> msb(s[i + 1].bb) + WMUL(s[i + 1].idx),
              scan |-> [sc EXCEPT !.bbi = i],
              vbb |-> EraseAtRec(s, i, msb(s[i + 1].bb)), other |-> o]
        ELSE [ret |-> noBit, scan |-> sc, vbb |-> s, other |-> o]

BBScanSp_prev_bit_del_dual(s, sc, o, g) ==
    LET i == LastNonZeroRec(s, 0, sc.bbi)
    IN  IF i # noBit
        THEN [ret |-> msb(s[i + 1].bb) + WMUL(s[i + 1].idx),
              scan |-> [sc EXCEPT !.bbi = i],
              vbb |-> EraseAtRec(s, i, msb(s[i + 1].bb)),
              other |-> BitSetSp_erase_bit(o, msb(s[i + 1].bb))]
        ELSE [ret |-> noBit, scan |-> sc, vbb |-> s, other |-> o]

---------------------------------------------------------------------------
(* Sparse bitsets: setting ranges of bits *)

\* bblock::MASK_1(low, high): Tables::mask_mid[low][high], low <= high
MASK_1(low, high) ==
    IF high = low THEN mask(low)
    ELSE (mask_low(high) \cap mask_high(low)) \cup mask(low) \cup mask(high)

MASK_1_LOW(i) == Not(mask_high(i))
MASK_1_HIGH(i) == Not(mask_low(i))

\* S1: the records are strictly sorted by block index
Sorted(s) == \A j, k \in DOMAIN s : j < k => s[j].idx < s[k].idx

\* BitSetSp::is_bit(int): binary search for the record of the bit's block
BitSetSp_is_bit(s, bit) ==
    LET it == lower_bound(s, WDIV(bit))
    IN  /\ it # Len(s)
        /\ s[it + 1].idx = WDIV(bit)
        /\ (bit - WMUL(WDIV(bit))) \in s[it + 1].bb

\* BitSetSp::size(): the sum of the population counts of the records
RECURSIVE BitSetSp_size(_)
BitSetSp_size(s) ==
    IF s = <<>> THEN 0
    ELSE Cardinality(s[1].bb) + BitSetSp_size(SubSeq(s, 2, Len(s)))

\* BitSetSp::find_block(int blockID, int& pos): pos is the position of the
\* first record with index blockID or greater, noBit if there is none
BitSetSp_find_block_pos_ref(s, blockID) ==
    LET it == lower_bound(s, blockID)
    IN  IF it # Len(s) THEN it ELSE noBit

\* BitSetSp::sort(): the records in ascending order of index; the order of
\* records of equal index is not determined, so every such order is an outcome
RECURSIVE BitSetSp_sort(_)
BitSetSp_sort(s) ==
    IF s = <<>> THEN {<<>>}
    ELSE LET lo == Min({s[k].idx : k \in DOMAIN s})
             K == {k \in DOMAIN s : s[k].idx = lo}
         IN  UNION {{<<s[k]>> \o t :
                        t \in BitSetSp_sort(SubSeq(s, 1, k - 1)
                                            \o SubSeq(s, k + 1, Len(s)))} :
                    k \in K}

\* the records (a, ALL_ONES), ..., (b - 1, ALL_ONES)
RECURSIVE FullBlocks(_, _)
FullBlocks(a, b) ==
    IF a >= b THEN <<>>
    ELSE <<pBlock_t(a, ALL_ONES)>> \o FullBlocks(a + 1, b)

\* vBB_.insert(it, rec) with it at position p
InsertAt(s, p, rec) == SubSeq(s, 1, p) \o <<rec>> \o SubSeq(s, p + 1, Len(s))

\* vBB_[p].bb_ |= w; a write beyond the last record changes no record
OrAt(s, p, w) ==
    IF p \in 0 .. (Len(s) - 1) THEN [s EXCEPT ![p + 1].bb = @ \cup w] ELSE s

\* what the reads of vBB_[posTHIS] beyond the last record may yield in a
\* bitset of n blocks: a record of any block index, n standing for the others
GarbageAt(n) == [w : {ALL_ZEROS}, rec : {pBlock_t(i, ALL_ZEROS) : i \in 0 .. n}]

\* the main loop of set_bit(firstBit, lastBit)
RECURSIVE SetBitLoop(_, _, _, _, _, _)
SetBitLoop(v, posTHIS, block, flag_sort, sizeL, bbh) ==
    IF posTHIS < sizeL /\ block < bbh
    THEN IF v[posTHIS + 1].idx < block
         THEN SetBitLoop(Append(v, pBlock_t(block, ALL_ONES)), posTHIS + 1,
                         block, flag_sort, sizeL, bbh)
         ELSE IF v[posTHIS + 1].idx > block
         THEN SetBitLoop(Append(v, pBlock_t(block, ALL_ONES)), posTHIS,
                         block + 1, TRUE, sizeL, bbh)
         ELSE SetBitLoop([v EXCEPT ![posTHIS + 1].bb = ALL_ONES], posTHIS + 1,
                         block + 1, flag_sort, sizeL, bbh)
    ELSE [v |-> v, posTHIS |-> posTHIS, block |-> block,
          flag_sort |-> flag_sort]

\* BitSetSp::set_bit(int firstBit, int lastBit): the set of record vectors
\* the call may leave
BitSetSp_set_bit_range(s, firstBit, lastBit, g) ==
    LET bbl == WDIV(firstBit)
        bbh == WDIV(lastBit)
        sizeL == Len(s)
        offsetl == firstBit - WMUL(bbl)
        offseth == lastBit - WMUL(bbh)
        posTHIS == BitSetSp_find_block_pos_ref(s, bbl)
    IN  IF posTHIS = noBit
        THEN IF bbl = bbh
             THEN {Append(s, pBlock_t(bbl, MASK_1(offsetl, offseth)))}
             ELSE {s \o <<pBlock_t(bbl, MASK_1_HIGH(offsetl)),
                          pBlock_t(bbh, MASK_1_LOW(offseth))>>
                     \o FullBlocks(bbl + 1, bbh)}
        ELSE IF bbl = bbh
        THEN IF s[posTHIS + 1].idx = bbl
             THEN {OrAt(s, posTHIS, MASK_1(offsetl, offseth))}
             ELSE IF s[posTHIS + 1].idx > bbl
             THEN {InsertAt(s, posTHIS,
                            pBlock_t(bbl, MASK_1(offsetl, offseth)))}
             ELSE {Append(s, pBlock_t(bbl, MASK_1(offsetl, offseth)))}
        ELSE LET match == s[posTHIS + 1].idx = bbl
                 v1 == IF match THEN OrAt(s, posTHIS, MASK_1_HIGH(offsetl))
                       ELSE Append(s, pBlock_t(bbl, MASK_1_HIGH(offsetl)))
                 flag1 == ~match /\ v1[posTHIS + 1].idx > bbl
                 l == SetBitLoop(v1, posTHIS + 1, bbl + 1, flag1, sizeL, bbh)
                 \* exit because the last block has been reached
                 e1 == IF l.block # bbh THEN l
                       ELSE IF ReadRec(l.v, l.posTHIS, g).idx = bbh
                       THEN [l EXCEPT !.v = OrAt(l.v, l.posTHIS,
                                                 MASK_1_LOW(offseth))]
                       ELSE LET v2 == Append(l.v, pBlock_t(l.block,
                                                     MASK_1_LOW(offseth)))
                            IN  [l EXCEPT
                                   !.v = v2,
                                   !.flag_sort =
                                       l.flag_sort
                                       \/ ReadRec(v2, l.posTHIS, g).idx > l.block]
                 \* exit because no more blocks in *this
                 v3 == IF e1.posTHIS = sizeL
                       THEN e1.v \o FullBlocks(e1.block, bbh)
                                 \o <<pBlock_t(bbh, MASK_1_LOW(offseth))>>
                       ELSE e1.v
             IN  IF e1.flag_sort THEN BitSetSp_sort(v3) ELSE {v3}

\* BitSetSp::reset_bit(int firstBit, int lastBit)
BitSetSp_reset_bit_range(s, firstBit, lastBit) ==
    LET bbh == WDIV(lastBit)
        bbl == WDIV(firstBit)
    IN  IF bbh = bbl
        THEN <<pBlock_t(bbl, MASK_1(firstBit - WMUL(bbl),
                                    lastBit - WMUL(bbh)))>>
        ELSE <<pBlock_t(bbl, MASK_1_HIGH(firstBit - WMUL(bbl))),
               pBlock_t(bbh, MASK_1_LOW(lastBit - WMUL(bbh)))>>
                 \o FullBlocks(bbl + 1, bbh)

---------------------------------------------------------------------------
(* Sparse bitsets: set algebra *)

\* BitSetSp::erase_bit(const BitSetSp& rhs): itL and itR are positions
RECURSIVE EraseLoop(_, _, _, _)
EraseLoop(v, itL, rhs, itR) ==
    IF itL # Len(v) /\ itR # Len(rhs)
    THEN IF v[itL + 1].idx < rhs[itR + 1].idx
         THEN EraseLoop(v, itL + 1, rhs, itR)
         ELSE IF v[itL + 1].idx > rhs[itR + 1].idx
         THEN EraseLoop(v, itL, rhs, itR + 1)
         ELSE EraseLoop([v EXCEPT ![itL + 1].bb = @ \cap Not(rhs[itR + 1].bb)],
                        itL + 1, rhs, itR + 1)
    ELSE v

BitSetSp_erase_bit_rhs(s, rhs) == EraseLoop(s, 0, rhs, 0)

\* BitSetSp::operator&=: the loop, then the records left in *this are zeroed
\* if rhs has reached its end
RECURSIVE AndLoop(_, _, _, _)
AndLoop(v, itL, rhs, itR) ==
    IF itL # Len(v) /\ itR # Len(rhs)
    THEN IF v[itL + 1].idx < rhs[itR + 1].idx
         THEN AndLoop([v EXCEPT ![itL + 1].bb = ALL_ZEROS], itL + 1, rhs, itR)
         ELSE IF v[itL + 1].idx > rhs[itR + 1].idx
         THEN AndLoop(v, itL, rhs, itR + 1)
         ELSE AndLoop([v EXCEPT ![itL + 1].bb = @ \cap rhs[itR + 1].bb],
                      itL + 1, rhs, itR + 1)
    ELSE IF itR = Len(rhs)
         THEN [k \in DOMAIN v |->
                  IF k > itL THEN [v[k] EXCEPT !.bb = ALL_ZEROS] ELSE v[k]]
         ELSE v

BitSetSp_and_assign_keep_tail(s, rhs) ==
    [k \in DOMAIN s |->
        IF \E j \in DOMAIN rhs : rhs[j].idx = s[k].idx
        THEN [s[k] EXCEPT
                !.bb = @ \cap rhs[CHOOSE j \in DOMAIN rhs :
                                      rhs[j].idx = s[k].idx].bb]
        ELSE s[k]]

BitSetSp_and_assign(s, rhs) == AndLoop(s, 0, rhs, 0)

\* BitSetSp::operator|=: the loop and the copy of the records left in rhs;
\* the result is [v, flag_sort]
RECURSIVE OrLoop(_, _, _, _, _, _)
OrLoop(v, posL, rhs, itR, flag_sort, sizeL) ==
    IF posL < sizeL /\ itR # Len(rhs)
    THEN IF v[posL + 1].idx < rhs[itR + 1].idx
         THEN OrLoop(v, posL + 1, rhs, itR, flag_sort, sizeL)
         ELSE IF v[posL + 1].idx > rhs[itR + 1].idx
         THEN OrLoop(Append(v, rhs[itR + 1]), posL, rhs, itR + 1, TRUE, sizeL)
         ELSE OrLoop([v EXCEPT ![posL + 1].bb = @ \cup rhs[itR + 1].bb],
                     posL + 1, rhs, itR + 1, flag_sort, sizeL)
    ELSE [v |-> IF posL = sizeL
                THEN v \o SubSeq(rhs, itR + 1, Len(rhs))
                ELSE v,
          flag_sort |-> flag_sort]

BitSetSp_or_assign_unsorted(s, rhs) == {OrLoop(s, 0, rhs, 0, FALSE, Len(s)).v}

\* the set of record vectors the call may leave, as for set_bit above
BitSetSp_or_assign(s, rhs) ==
    LET l == OrLoop(s, 0, rhs, 0, FALSE, Len(s))
    IN  IF l.flag_sort THEN BitSetSp_sort(l.v) ELSE {l.v}

\* BitSetSp::operator^=
RECURSIVE XorLoop(_, _, _, _, _, _)
XorLoop(v, posL, rhs, itR, flag_sort, sizeL) ==
    IF posL < sizeL /\ itR # Len(rhs)
    THEN IF v[posL + 1].idx < rhs[itR + 1].idx
         THEN XorLoop(v, posL + 1, rhs, itR, flag_sort, sizeL)
         ELSE IF v[posL + 1].idx > rhs[itR + 1].idx
         THEN XorLoop(Append(v, rhs[itR + 1]), posL, rhs, itR + 1, TRUE, sizeL)
         ELSE XorLoop([v EXCEPT ![posL + 1].bb = Xor(@, rhs[itR + 1].bb)],
                      posL + 1, rhs, itR + 1, flag_sort, sizeL)
    ELSE [v |-> IF posL = sizeL
                THEN v \o SubSeq(rhs, itR + 1, Len(rhs))
                ELSE v,
          flag_sort |-> flag_sort]

BitSetSp_xor_assign(s, rhs) ==
    LET l == XorLoop(s, 0, rhs, 0, FALSE, Len(s))
    IN  IF l.flag_sort THEN BitSetSp_sort(l.v) ELSE {l.v}

BitSetSp_flip_present_only(n, s) ==
    LET J == {i \in Blocks(n) : \E k \in DOMAIN s :
                                    s[k].idx = i /\ Not(s[k].bb) # ALL_ZEROS}
        ix == AscSeq(J)
    IN  [k \in 1 .. Len(ix) |->
            pBlock_t(ix[k], Not(s[Min({j \in DOMAIN s :
                                          s[j].idx = ix[k]})].bb))]

\* BitSetSp::flip() on a bitset of capacity n blocks: for each block index
\* in ascending order, the complement of the first record of that index if
\* it is not zero, and a full block where there is no record
BitSetSp_flip(n, s) ==
    LET flipped(i) ==
            IF \E k \in DOMAIN s : s[k].idx = i
            THEN Not(s[Min({k \in DOMAIN s : s[k].idx = i})].bb)
            ELSE ALL_ONES
        J == {i \in Blocks(n) : flipped(i) # ALL_ZEROS}
        ix == AscSeq(J)
    IN  [k \in 1 .. Len(ix) |-> pBlock_t(ix[k], flipped(ix[k]))]

\* std::sort of the records with the comparison a.idx_ < b.idx_
std_sort(s) == BitSetSp_sort(s)

\* BitSetSp::find_block_ext(int blockID): whether the block has a record, and
\* the position of the first record with index blockID or greater (Len(s)
\* stands for the end iterator)
BitSetSp_find_block_ext(s, blockID) ==
    LET it == lower_bound(s, blockID)
    IN  [first |-> it # Len(s) /\ s[it + 1].idx = blockID, second |-> it]

\* the main loop of set_block(firstBlock, lastBlock, rhs)
RECURSIVE SetBlockLoop(_, _, _, _, _, _, _)
SetBlockLoop(v, posL, rhs, itR, flag_sort, sizeL, lastBlock) ==
    IF /\ posL < sizeL
       /\ v[posL + 1].idx <= lastBlock
       /\ itR # Len(rhs)
       /\ rhs[itR + 1].idx <= lastBlock
    THEN IF v[posL + 1].idx < rhs[itR + 1].idx
         THEN SetBlockLoop(v, posL + 1, rhs, itR, flag_sort, sizeL, lastBlock)
         ELSE IF v[posL + 1].idx > rhs[itR + 1].idx
         THEN SetBlockLoop(Append(v, rhs[itR + 1]), posL, rhs, itR + 1, TRUE,
                           sizeL, lastBlock)
         ELSE SetBlockLoop([v EXCEPT ![posL + 1].bb = @ \cup rhs[itR + 1].bb],
                           posL + 1, rhs, itR + 1, flag_sort, sizeL, lastBlock)
    ELSE [v |-> v, posL |-> posL, itR |-> itR, flag_sort |-> flag_sort]

\* the records of rhs from position itR on whose index is lastBlock or less
RECURSIVE RhsUpTo(_, _, _)
RhsUpTo(rhs, itR, lastBlock) ==
    IF itR # Len(rhs) /\ rhs[itR + 1].idx <= lastBlock
    THEN <<rhs[itR + 1]>> \o RhsUpTo(rhs, itR + 1, lastBlock)
    ELSE <<>>

\* BitSetSp::set_block(int firstBlock, int lastBlock, const BitSetSp& rhs),
\* 0 <= firstBlock <= lastBlock: [out, oob], the set of record vectors the
\* call may leave and whether it read vBB_[posL] beyond the last record
BitSetSp_set_block(s, firstBlock, lastBlock, rhs, g) ==
    LET itL == lower_bound(s, firstBlock)
        sizeL == Len(s)
        pRlow == BitSetSp_find_block_ext(rhs, firstBlock)
    IN  IF pRlow.second = Len(rhs) THEN [out |-> {s}, oob |-> FALSE]
        ELSE IF itL = Len(s)
        THEN [out |-> {s \o RhsUpTo(rhs, pRlow.second, lastBlock)},
              oob |-> FALSE]
        ELSE IF firstBlock = lastBlock
                /\ rhs[pRlow.second + 1].idx = firstBlock
        THEN IF s[itL + 1].idx # firstBlock
             THEN [out |-> BitSetSp_sort(Append(s, rhs[pRlow.second + 1])),
                   oob |-> FALSE]
             ELSE [out |-> {OrAt(s, itL, rhs[pRlow.second + 1].bb)},
                   oob |-> FALSE]
        ELSE LET l == SetBlockLoop(s, itL, rhs, pRlow.second, FALSE, sizeL,
                                   lastBlock)
                 exit == \/ l.posL = sizeL
                         \/ l.v[l.posL + 1].idx > lastBlock
                 v2 == IF exit THEN l.v \o RhsUpTo(rhs, l.itR, lastBlock)
                       ELSE l.v
                 flag2 == \/ l.flag_sort
                          \/ exit /\ ReadRec(v2, l.posL, g).idx > lastBlock
             IN  [out |-> IF flag2 THEN std_sort(v2) ELSE {v2},
                  oob |-> exit /\ l.posL >= Len(v2)]

---------------------------------------------------------------------------
(* Sentinel bitset (BBSentinel): a dense scanning bitset with the window    *)
(* m_BBL .. m_BBH of block indices.  An operator takes the blocks v and the *)
(* sentinels l, h of *this and returns a record of what the call leaves:    *)
(* the fields it can change and ret, the value returned.                    *)

MaxSentinelBlocks == 2  \* block capacities 1..MaxSentinelBlocks

\* the windows a caller may set on a bitset of n blocks (set_sentinels
\* requires low <= high; both are block indices)
Windows(n) == {<<l, h>> \in Blocks(n) \X Blocks(n) : l <= h}

\* vBB_[i]; a read outside the vector yields the word g
ReadBlock(v, i, g) == IF i \in DOMAIN v THEN v[i] ELSE g

\* the words a read outside the vector may yield
GarbageWords == {ALL_ZEROS, ALL_ONES}

BBSentinel_update_sentinels_low(v, l, h) ==
    IF l = EMPTY_ELEM
    THEN [m_BBL |-> l, m_BBH |-> h, ret |-> EMPTY_ELEM]
    ELSE IF v[l] = ALL_ZEROS
         THEN LET it == FirstNonZero(v, l + 1, h)
              IN  IF it # noBit
                  THEN [m_BBL |-> it, m_BBH |-> h, ret |-> 0]
                  ELSE [m_BBL |-> EMPTY_ELEM, m_BBH |-> EMPTY_ELEM,
                        ret |-> EMPTY_ELEM]
         ELSE [m_BBL |-> l, m_BBH |-> h, ret |-> 0]

BBSentinel_update_sentinels_high_reset(v, l, h) ==
    IF h = EMPTY_ELEM
    THEN [m_BBL |-> l, m_BBH |-> h, ret |-> EMPTY_ELEM]
    ELSE IF v[h] = ALL_ZEROS
         THEN [m_BBL |-> EMPTY_ELEM, m_BBH |-> EMPTY_ELEM, ret |-> EMPTY_ELEM]
         ELSE [m_BBL |-> l, m_BBH |-> h, ret |-> 0]

BBSentinel_update_sentinels_high(v, l, h) ==
    IF h = EMPTY_ELEM
    THEN [m_BBL |-> l, m_BBH |-> h, ret |-> EMPTY_ELEM]
    ELSE IF v[h] = ALL_ZEROS
         THEN LET i == LastNonZero(v, l, h - 1)
              IN  IF i # noBit
                  THEN [m_BBL |-> l, m_BBH |-> i, ret |-> 0]
                  ELSE [m_BBL |-> EMPTY_ELEM, m_BBH |-> EMPTY_ELEM,
                        ret |-> EMPTY_ELEM]
         ELSE [m_BBL |-> l, m_BBH |-> h, ret |-> 0]

BBSentinel_update_sentinels(v, l, h) ==
    IF l = EMPTY_ELEM \/ h = EMPTY_ELEM
    THEN [m_BBL |-> l, m_BBH |-> h, ret |-> EMPTY_ELEM]
    ELSE LET it == IF v[l] = ALL_ZEROS THEN FirstNonZero(v, l + 1, h) ELSE l
         IN  IF it = noBit
             THEN [m_BBL |-> EMPTY_ELEM, m_BBH |-> EMPTY_ELEM,
                   ret |-> EMPTY_ELEM]
             ELSE IF v[h] = ALL_ZEROS
                  THEN LET i == LastNonZero(v, it, h - 1)
                       IN  IF i # noBit
                           THEN [m_BBL |-> it, m_BBH |-> i, ret |-> 0]
                           ELSE [m_BBL |-> EMPTY_ELEM, m_BBH |-> EMPTY_ELEM,
                                 ret |-> EMPTY_ELEM]
                  ELSE [m_BBL |-> it, m_BBH |-> h, ret |-> 0]

\* update_sentinels(bbl, bbh): the same search begun from the window given
BBSentinel_update_sentinels_in(v, l, h, bbl, bbh) ==
    IF bbl = EMPTY_ELEM \/ bbh = EMPTY_ELEM
    THEN [m_BBL |-> l, m_BBH |-> h, ret |-> EMPTY_ELEM]
    ELSE BBSentinel_update_sentinels(v, bbl, bbh)

BBSentinel_update_sentinels_to_v_low_only(l, h, v) ==
    LET bb_index == WDIV(v)
    IN  IF l = EMPTY_ELEM \/ h = EMPTY_ELEM
        THEN [m_BBL |-> bb_index, m_BBH |-> bb_index]
        ELSE [m_BBL |-> Min({l, bb_index}), m_BBH |-> h]

BBSentinel_update_sentinels_to_v(l, h, v) ==
    LET bb_index == WDIV(v)
    IN  IF l = EMPTY_ELEM \/ h = EMPTY_ELEM
        THEN [m_BBL |-> bb_index, m_BBH |-> bb_index]
        ELSE [m_BBL |-> Min({l, bb_index}), m_BBH |-> Max({h, bb_index})]

\* init_sentinels(update)
BBSentinel_init_sentinels(n, v, update) ==
    IF update
    THEN BBSentinel_update_sentinels(v, 0, n - 1)
    ELSE [m_BBL |-> 0, m_BBH |-> n - 1, ret |-> 0]

BBSentinel_erase_bit_and_update_high_only(v, l, h, nBit) ==
    IF l = EMPTY_ELEM \/ h = EMPTY_ELEM
    THEN [vbb |-> v, m_BBL |-> l, m_BBH |-> h]
    ELSE LET bb == WDIV(nBit)
             v2 == EraseAt(v, bb, nBit % WORD_SIZE)
             u  == IF v2[bb] = ALL_ZEROS /\ h = bb
                   THEN BBSentinel_update_sentinels_high(v2, l, h)
                   ELSE [m_BBL |-> l, m_BBH |-> h]
         IN  [vbb |-> v2, m_BBL |-> u.m_BBL, m_BBH |-> u.m_BBH]

BBSentinel_erase_bit_and_update(v, l, h, nBit) ==
    IF l = EMPTY_ELEM \/ h = EMPTY_ELEM
    THEN [vbb |-> v, m_BBL |-> l, m_BBH |-> h]
    ELSE LET bb == WDIV(nBit)
             v2 == EraseAt(v, bb, nBit % WORD_SIZE)
             u  == IF v2[bb] = ALL_ZEROS
                   THEN IF l = bb
                        THEN BBSentinel_update_sentinels_low(v2, l, h)
                        ELSE IF h = bb
                             THEN BBSentinel_update_sentinels_high(v2, l, h)
                             ELSE [m_BBL |-> l, m_BBH |-> h]
                   ELSE [m_BBL |-> l, m_BBH |-> h]
         IN  [vbb |-> v2, m_BBL |-> u.m_BBL, m_BBH |-> u.m_BBH]

\* erase_bit(): std::fill of the blocks of the window
BBSentinel_erase_bit(v, l, h) ==
    IF l = EMPTY_ELEM \/ h = EMPTY_ELEM THEN v
    ELSE [i \in DOMAIN v |-> IF i \in l .. h THEN ALL_ZEROS ELSE v[i]]

\* erase_bit(bbn): vBB_[i] &= ~bbn.block(i) over the window
BBSentinel_erase_bit_bbn(v, l, h, bbn) ==
    IF l = EMPTY_ELEM \/ h = EMPTY_ELEM THEN v
    ELSE [i \in DOMAIN v |-> IF i \in l .. h THEN v[i] \cap Not(bbn[i])
                                             ELSE v[i]]

\* operator&=(bbn): vBB_[i] &= bbn.block(i) over the window
BBSentinel_and_assign(v, l, h, bbn) ==
    IF l = EMPTY_ELEM \/ h = EMPTY_ELEM THEN v
    ELSE [i \in DOMAIN v |-> IF i \in l .. h THEN v[i] \cap bbn[i] ELSE v[i]]

BBSentinel_is_empty(l, h) == l = EMPTY_ELEM \/ h = EMPTY_ELEM

\* operator=(bbs): the sentinels of bbs and its blocks within them
BBSentinel_copy_assign(v, bbs) ==
    [vbb   |-> IF bbs.m_BBL # EMPTY_ELEM /\ bbs.m_BBH # EMPTY_ELEM
               THEN [i \in DOMAIN v |->
                        IF i \in bbs.m_BBL .. bbs.m_BBH THEN bbs.vbb[i]
                                                        ELSE v[i]]
               ELSE v,
     m_BBL |-> bbs.m_BBL, m_BBH |-> bbs.m_BBH]

\* AND(lhs, rhs, res): res has the blocks v.  The loop has no test for the
\* empty window: from -1 to -1 it reads and writes block -1 (oob)
AND(lhs, rhs, v) ==
    [vbb   |-> [i \in DOMAIN v |->
                   IF i \in rhs.m_BBL .. rhs.m_BBH
                   THEN lhs[i] \cap rhs.vbb[i] ELSE v[i]],
     m_BBL |-> rhs.m_BBL, m_BBH |-> rhs.m_BBH,
     oob   |-> (rhs.m_BBL .. rhs.m_BBH) \ DOMAIN v # {}]

\* BBSentinel::init_scan(sct): every scan type updates the sentinels, the
\* non-destructive ones set the cursor
BBSentinel_init_scan(v, l, h, sc, sct) ==
    LET u == BBSentinel_update_sentinels(v, l, h)
    IN  [m_BBL |-> u.m_BBL, m_BBH |-> u.m_BBH,
         scan  |-> CASE sct = "NON_DESTRUCTIVE" ->
                            [bbi |-> u.m_BBL, pos |-> MASK_LIM]
                     [] sct = "NON_DESTRUCTIVE_REVERSE" ->
                            [bbi |-> u.m_BBH, pos |-> WORD_SIZE]
                     [] OTHER -> sc]

\* the scan steps return [ret, vbb, m_BBL, m_BBH, scan, oob]; oob tells that
\* a block outside the vector was indexed
BBSentinel_next_bit_del(v, l, h, sc, g) ==
    LET S == {i \in l .. h : ReadBlock(v, i, g) # ALL_ZEROS}
        i == Min(S)
        posInBB == lsb(ReadBlock(v, i, g))
    IN  IF S = {}
        THEN [ret |-> EMPTY_ELEM, vbb |-> v, m_BBL |-> l, m_BBH |-> h,
              scan |-> sc, oob |-> (l .. h) \ DOMAIN v # {}]
        ELSE [ret |-> posInBB + WMUL(i),
              vbb |-> IF i \in DOMAIN v THEN EraseAt(v, i, posInBB) ELSE v,
              m_BBL |-> i, m_BBH |-> h, scan |-> sc,
              oob |-> (l .. i) \ DOMAIN v # {}]

BBSentinel_prev_bit_del(v, l, h, sc, g) ==
    LET S == {i \in l .. h : ReadBlock(v, i, g) # ALL_ZEROS}
        i == Max(S)
        posInBB == msb(ReadBlock(v, i, g))
    IN  IF S = {}
        THEN [ret |-> EMPTY_ELEM, vbb |-> v, m_BBL |-> l, m_BBH |-> h,
              scan |-> sc, oob |-> (l .. h) \ DOMAIN v # {}]
        ELSE [ret |-> posInBB + WMUL(i),
              vbb |-> IF i \in DOMAIN v THEN EraseAt(v, i, posInBB) ELSE v,
              m_BBL |-> l, m_BBH |-> i, scan |-> sc,
              oob |-> (i .. h) \ DOMAIN v # {}]

\* next_bit_del(bbN_del): the step of next_bit_del, which clears the bit it
\* returns from the block of the same index of bbN_del too; o are the blocks
\* of bbN_del, returned as other
BBSentinel_next_bit_del_other(v, l, h, sc, o, g) ==
    LET S == {i \in l .. h : ReadBlock(v, i, g) # ALL_ZEROS}
        i == Min(S)
        posInBB == lsb(ReadBlock(v, i, g))
    IN  IF S = {}
        THEN [ret |-> EMPTY_ELEM, vbb |-> v, m_BBL |-> l, m_BBH |-> h,
              scan |-> sc, other |-> o, oob |-> (l .. h) \ DOMAIN v # {}]
        ELSE [ret |-> posInBB + WMUL(i),
              vbb |-> IF i \in DOMAIN v THEN EraseAt(v, i, posInBB) ELSE v,
              m_BBL |-> i, m_BBH |-> h, scan |-> sc,
              other |-> IF i \in DOMAIN o THEN EraseAt(o, i, posInBB) ELSE o,
              oob |-> (l .. i) \ DOMAIN v # {}]

\* BitSet::set_bit(bit) and BitSet::erase_bit(bit), which BBSentinel
\* inherits: neither looks at the sentinels
BitSet_set_bit(v, bit) ==
    [v EXCEPT ![WDIV(bit)] = @ \cup mask(bit % WORD_SIZE)]

BitSet_erase_bit(v, bit) == EraseAt(v, WDIV(bit), bit % WORD_SIZE)

\* BBSentinel::next_bit(): the step of a non-destructive scan, which looks
\* from the cursor up to m_BBH; returns [ret, scan, oob]
BBSentinel_next_bit(v, l, h, sc, g) ==
    LET w == ReadBlock(v, sc.bbi, g) \cap mask_high(sc.pos)
        S == {i \in (sc.bbi + 1) .. h : ReadBlock(v, i, g) # ALL_ZEROS}
        i == Min(S)
        posInBB == lsb(ReadBlock(v, i, g))
    IN  IF w # ALL_ZEROS
        THEN [ret |-> lsb(w) + WMUL(sc.bbi), scan |-> [sc EXCEPT !.pos = lsb(w)],
              oob |-> sc.bbi \notin DOMAIN v]
        ELSE IF S # {}
        THEN [ret |-> posInBB + WMUL(i), scan |-> [bbi |-> i, pos |-> posInBB],
              oob |-> (sc.bbi .. i) \ DOMAIN v # {}]
        ELSE [ret |-> EMPTY_ELEM, scan |-> sc,
              oob |-> ({sc.bbi} \cup ((sc.bbi + 1) .. h)) \ DOMAIN v # {}]

(* Moves.  An object is a record [nBB, vbb, scan, m_BBL, m_BBH]; a BBScan    *)
(* has no sentinels and carries noBit in their place.  A move returns        *)
(* [this, other]: the object moved into and the object moved from.          *)

Object(n, v, sc, l, h) ==
    [nBB |-> n, vbb |-> v, scan |-> sc, m_BBL |-> l, m_BBH |-> h]

\* BitSet(BitSet&&) and BitSet::operator=(BitSet&&): the blocks and the
\* capacity go to this, the object moved from is left with none
BitSet_move(this, o) ==
    [this  |-> [this EXCEPT !.nBB = o.nBB, !.vbb = o.vbb],
     other |-> [o EXCEPT !.nBB = 0, !.vbb = << >>]]

\* BBScan(BBScan&& other)
BBScan_move_ctor(this, o) ==
    LET b == BitSet_move(this, o)
    IN  [this  |-> [b.this EXCEPT !.scan = b.other.scan],
         other |-> [b.other EXCEPT !.scan = scan_t]]

BBScan_move_assign_keep_scan(this, o, same) ==
    IF same THEN [this |-> this, other |-> o]
    ELSE LET b == BitSet_move(this, o)
         IN  [this  |-> [b.this EXCEPT !.scan = b.other.scan],
              other |-> b.other]

\* BBScan::operator=(BBScan&& other); same tells that this == &other
BBScan_move_assign(this, o, same) ==
    IF same THEN [this |-> this, other |-> o]
    ELSE LET b == BitSet_move(this, o)
         IN  [this  |-> [b.this EXCEPT !.scan = b.other.scan],
              other |-> [b.other EXCEPT !.scan = scan_t]]

\* BBSentinel(BBSentinel&& other)
BBSentinel_move_ctor(this, o) ==
    LET s == BBScan_move_ctor(this, o)
    IN  [this  |-> [s.this EXCEPT !.m_BBH = s.other.m_BBH,
                                  !.m_BBL = s.other.m_BBL],
         other |-> [s.other EXCEPT !.m_BBH = EMPTY_ELEM,
                                   !.m_BBL = EMPTY_ELEM]]

\* BBSentinel::operator=(BBSentinel&& other)
BBSentinel_move_assign(this, o, same) ==
    IF same THEN [this |-> this, other |-> o]
    ELSE LET s == BBScan_move_assign(this, o, FALSE)
         IN  [this  |-> [s.this EXCEPT !.m_BBH = s.other.m_BBH,
                                       !.m_BBL = s.other.m_BBL],
              other |-> [s.other EXCEPT !.m_BBH = EMPTY_ELEM,
                                        !.m_BBL = EMPTY_ELEM]]

---------------------------------------------------------------------------
(* Runs of one dense scanning bitset *)

\* the number of noBit values in a sequence of returned values
NoBits(o) == Cardinality({i \in DOMAIN o : o[i] = noBit})

NoSentinel ==
    /\ m_BBL = noBit /\ m_BBH = noBit /\ other = <<>>
    /\ win0 = <<noBit, noBit>>

NoSparse ==
    /\ NoSentinel
    /\ sp = <<>> /\ osp = <<>> /\ sscan = scan_t /\ sout = <<>>
    /\ sp0 = <<>> /\ osp0 = <<>> /\ sscan0 = scan_t

InitDense ==
    /\ nBB \in 1 .. MaxBlocks
    /\ \E S \in SUBSET Universe(nBB) : vbb = DenseOf(nBB, S)
    /\ obb = DenseOf(nBB, {})
    /\ scan = scan_t
    /\ entry = "NONE" /\ mode = "NONE" /\ first = noBit /\ last = noBit
    /\ rc = "0"
    /\ out = <<>>
    /\ vbb0 = vbb /\ obb0 = obb
    /\ NoSparse

\* a scan is run until it returns noBit before the next one is begun
Finished(o) == o # <<>> /\ o[Len(o)] = noBit

DInitScan ==
    \E sct \in ScanTypes :
        /\ entry = "NONE" \/ Finished(out)
        /\ scan' = BBScan_init_scan(nBB, scan, sct)
        /\ entry' = "init_scan" /\ mode' = sct /\ first' = noBit /\ rc' = "0"
        /\ out' = <<>> /\ vbb0' = vbb /\ obb0' = obb
        /\ UNCHANGED <<m_BBL, m_BBH, other, win0,
                       nBB, vbb, obb, sp, osp, sscan, sout, sp0, osp0,
                       sscan0, last>>

DInitScanFirst ==
    \E sct \in ScanTypes, f \in StartBits(nBB) \cup {noBit} :
        /\ entry = "NONE" \/ Finished(out)
        /\ scan' = BBScan_init_scan_first(nBB, scan, f, sct)
        /\ entry' = "init_scan_first" /\ mode' = sct /\ first' = f /\ rc' = "0"
        /\ out' = <<>> /\ vbb0' = vbb /\ obb0' = obb
        /\ UNCHANGED <<m_BBL, m_BBH, other, win0,
                       nBB, vbb, obb, sp, osp, sscan, sout, sp0, osp0,
                       sscan0, last>>

\* a scan step on dense A; r is what the step's code computes
DStep(r) ==
    /\ NoBits(out) < MaxTail
    /\ out' = Append(out, r.ret)
    /\ scan' = r.scan /\ vbb' = r.vbb /\ obb' = r.other
    /\ UNCHANGED <<m_BBL, m_BBH, other, win0,
                   nBB, sp, osp, sscan, entry, mode, first, last, rc, sout,
                   vbb0, obb0, sp0, osp0, sscan0>>

DNextBit ==
    /\ mode = "NON_DESTRUCTIVE"
    /\ DStep(BBScan_next_bit(nBB, vbb, scan, obb))

DPrevBit ==
    /\ mode = "NON_DESTRUCTIVE_REVERSE"
    /\ DStep(BBScan_prev_bit(nBB, vbb, scan, obb))

DNextBitDel ==
    /\ mode = "DESTRUCTIVE"
    /\ DStep(BBScan_next_bit_del(nBB, vbb, scan, obb))

DPrevBitDel ==
    /\ mode = "DESTRUCTIVE_REVERSE"
    /\ DStep(BBScan_prev_bit_del(nBB, vbb, scan, obb))

NextDense ==
    \/ DInitScan
    \/ DInitScanFirst
    \/ DNextBit
    \/ DPrevBit
    \/ DNextBitDel
    \/ DPrevBitDel

SpecDense == InitDense /\ [][NextDense]_vars

---------------------------------------------------------------------------
(* Runs of a dense scanning bitset A with a second bitset B of the same     *)
(* capacity: every scan step is the two-bitset one                         *)

InitDenseDual ==
    /\ nBB \in 1 .. MaxDualBlocks
    /\ \E S \in SUBSET Universe(nBB) : vbb = DenseOf(nBB, S)
    /\ \E S \in SUBSET Universe(nBB) : obb = DenseOf(nBB, S)
    /\ scan = scan_t
    /\ entry = "NONE" /\ mode = "NONE" /\ first = noBit /\ last = noBit
    /\ rc = "0"
    /\ out = <<>>
    /\ vbb0 = vbb /\ obb0 = obb
    /\ NoSparse

DNextBitDual ==
    /\ mode = "NON_DESTRUCTIVE"
    /\ DStep(BBScan_next_bit_dual(nBB, vbb, scan, obb))

DPrevBitDual ==
    /\ mode = "NON_DESTRUCTIVE_REVERSE"
    /\ DStep(BBScan_prev_bit_dual(nBB, vbb, scan, obb))

DNextBitDelDual ==
    /\ mode = "DESTRUCTIVE"
    /\ DStep(BBScan_next_bit_del_dual(nBB, vbb, scan, obb))

DPrevBitDelDual ==
    /\ mode = "DESTRUCTIVE_REVERSE"
    /\ DStep(BBScan_prev_bit_del_dual(nBB, vbb, scan, obb))

NextDenseDual ==
    \/ DInitScan
    \/ DNextBitDual
    \/ DPrevBitDual
    \/ DNextBitDelDual
    \/ DPrevBitDelDual

SpecDenseDual == InitDenseDual /\ [][NextDenseDual]_vars

---------------------------------------------------------------------------
(* Runs of one sparse scanning bitset *)

NoDense ==
    /\ NoSentinel
    /\ vbb = DenseOf(nBB, {}) /\ obb = DenseOf(nBB, {}) /\ scan = scan_t
    /\ out = <<>> /\ vbb0 = vbb /\ obb0 = obb

InitSparse ==
    /\ nBB \in 1 .. MaxSparseBlocks
    /\ sp \in SparseSets(nBB)
    /\ osp = <<>>
    /\ sscan = scan_t /\ sscan0 = scan_t
    /\ entry = "NONE" /\ mode = "NONE" /\ first = noBit /\ last = noBit
    /\ rc = "0"
    /\ sout = <<>>
    /\ sp0 = sp /\ osp0 = osp
    /\ NoDense

\* the next scan is begun when the last one returned noBit or did not begin;
\* no call follows std::exit
SReady ==
    /\ rc # "exit"
    /\ entry = "NONE" \/ rc # "0" \/ Finished(sout)

SInitScan ==
    \E sct \in ScanTypes :
        LET r == BBScanSp_init_scan(sp, sscan, sct)
        IN  /\ SReady
            /\ sscan' = r.scan /\ rc' = r.rc
            /\ entry' = "init_scan" /\ mode' = sct /\ first' = noBit
            /\ sout' = <<>> /\ sp0' = sp /\ osp0' = osp /\ sscan0' = sscan
            /\ UNCHANGED <<m_BBL, m_BBH, other, win0,
                           nBB, vbb, obb, scan, sp, osp, out, vbb0, obb0,
                          last>>

SInitScanFirst ==
    \E sct \in ScanTypes, f \in StartBits(nBB) \cup {noBit} :
        LET r == BBScanSp_init_scan_first(sp, sscan, f, sct)
        IN  /\ SReady
            /\ sscan' = r.scan /\ rc' = r.rc
            /\ entry' = "init_scan_first" /\ mode' = sct /\ first' = f
            /\ sout' = <<>> /\ sp0' = sp /\ osp0' = osp /\ sscan0' = sscan
            /\ UNCHANGED <<m_BBL, m_BBH, other, win0,
                           nBB, vbb, obb, scan, sp, osp, out, vbb0, obb0,
                          last>>

\* a scan step on sparse A; r is what the step's code computes.  No step
\* follows a call that threw or ended the program.
SStep(r) ==
    /\ rc \in {"0", "-1"}
    /\ NoBits(sout) < MaxTail
    /\ sout' = Append(sout, r.ret)
    /\ sscan' = r.scan /\ sp' = r.vbb /\ osp' = r.other
    /\ UNCHANGED <<m_BBL, m_BBH, other, win0,
                   nBB, vbb, obb, scan, entry, mode, first, last, rc, out,
                   vbb0, obb0, sp0, osp0, sscan0>>

SNextBit ==
    /\ mode = "NON_DESTRUCTIVE"
    /\ \E g \in Garbage : SStep(BBScanSp_next_bit(sp, sscan, osp, g))

SPrevBit ==
    /\ mode = "NON_DESTRUCTIVE_REVERSE"
    /\ \E g \in Garbage : SStep(BBScanSp_prev_bit(sp, sscan, osp, g))

SNextBitDel ==
    /\ mode = "DESTRUCTIVE" /\ rc = "0"
    /\ \E g \in Garbage : SStep(BBScanSp_next_bit_del(sp, sscan, osp, g))

SPrevBitDel ==
    /\ mode = "DESTRUCTIVE_REVERSE" /\ rc = "0"
    /\ \E g \in Garbage : SStep(BBScanSp_prev_bit_del(sp, sscan, osp, g))

NextSparse ==
    \/ SInitScan
    \/ SInitScanFirst
    \/ SNextBit
    \/ SPrevBit
    \/ SNextBitDel
    \/ SPrevBitDel

SpecSparse == InitSparse /\ [][NextSparse]_vars

(* Runs of the scans of one sparse bitset of up to MaxBlocks records, with  *)
(* records without bits before, between and after those with bits           *)

InitZeroRecords ==
    /\ nBB \in 1 .. MaxBlocks
    /\ sp \in SparseSets(nBB)
    /\ osp = <<>>
    /\ sscan = scan_t /\ sscan0 = scan_t
    /\ entry = "NONE" /\ mode = "NONE" /\ first = noBit /\ last = noBit
    /\ rc = "0"
    /\ sout = <<>>
    /\ sp0 = sp /\ osp0 = osp
    /\ NoDense

NextZeroRecords ==
    \/ SInitScan
    \/ SNextBit
    \/ SPrevBit
    \/ SNextBitDel
    \/ SPrevBitDel

SpecZeroRecords == InitZeroRecords /\ [][NextZeroRecords]_vars

---------------------------------------------------------------------------
(* Runs of a sparse scanning bitset A with a second sparse bitset B: every *)
(* scan step is the two-bitset one                                        *)

InitSparseDual ==
    /\ nBB \in 1 .. MaxDualBlocks
    /\ sp \in SparseSets(nBB)
    /\ osp \in SparseSets(nBB)
    /\ sscan = scan_t /\ sscan0 = scan_t
    /\ entry = "NONE" /\ mode = "NONE" /\ first = noBit /\ last = noBit
    /\ rc = "0"
    /\ sout = <<>>
    /\ sp0 = sp /\ osp0 = osp
    /\ NoDense

SNextBitDual ==
    /\ mode = "NON_DESTRUCTIVE" /\ rc = "0"
    /\ \E g \in Garbage : SStep(BBScanSp_next_bit_dual(sp, sscan, osp, g))

SPrevBitDual ==
    /\ mode = "NON_DESTRUCTIVE_REVERSE" /\ rc = "0"
    /\ \E g \in Garbage : SStep(BBScanSp_prev_bit_dual(sp, sscan, osp, g))

SNextBitDelDual ==
    /\ mode = "DESTRUCTIVE" /\ rc = "0"
    /\ \E g \in Garbage : SStep(BBScanSp_next_bit_del_dual(sp, sscan, osp, g))

SPrevBitDelDual ==
    /\ mode = "DESTRUCTIVE_REVERSE" /\ rc = "0"
    /\ \E g \in Garbage : SStep(BBScanSp_prev_bit_del_dual(sp, sscan, osp, g))

NextSparseDual ==
    \/ SInitScan
    \/ SNextBitDual
    \/ SPrevBitDual
    \/ SNextBitDelDual
    \/ SPrevBitDelDual

SpecSparseDual == InitSparseDual /\ [][NextSparseDual]_vars

---------------------------------------------------------------------------
(* Runs of a dense and a sparse scanning bitset that hold the same          *)
(* non-empty set of bits and are scanned by the same calls                 *)

InitPair ==
    /\ nBB \in 1 .. MaxBlocks
    /\ \E S \in SUBSET Universe(nBB), J \in SUBSET Blocks(nBB) :
           /\ S # {}
           /\ {WDIV(b) : b \in S} \subseteq J
           /\ vbb = DenseOf(nBB, S)
           /\ sp = SparseOf(J, S)
    /\ obb = DenseOf(nBB, {}) /\ osp = <<>>
    /\ NoSentinel
    /\ scan = scan_t /\ sscan = scan_t /\ sscan0 = scan_t
    /\ entry = "NONE" /\ mode = "NONE" /\ first = noBit /\ last = noBit
    /\ rc = "0"
    /\ out = <<>> /\ sout = <<>>
    /\ vbb0 = vbb /\ obb0 = obb /\ sp0 = sp /\ osp0 = osp

PInitScan ==
    \E sct \in ScanTypes :
        LET r == BBScanSp_init_scan(sp, sscan, sct)
        IN  /\ entry = "NONE" \/ (Finished(out) /\ Finished(sout))
            /\ scan' = BBScan_init_scan(nBB, scan, sct)
            /\ sscan' = r.scan /\ rc' = r.rc
            /\ entry' = "init_scan" /\ mode' = sct /\ first' = noBit
            /\ out' = <<>> /\ sout' = <<>>
            /\ vbb0' = vbb /\ obb0' = obb /\ sp0' = sp /\ osp0' = osp
            /\ sscan0' = sscan
            /\ UNCHANGED <<m_BBL, m_BBH, other, win0,
                           nBB, vbb, obb, sp, osp, last>>

\* the same scan step on dense A and on sparse A
PStep(d, r) ==
    /\ rc = "0"
    /\ NoBits(out) < MaxTail
    /\ out' = Append(out, d.ret) /\ sout' = Append(sout, r.ret)
    /\ scan' = d.scan /\ vbb' = d.vbb /\ obb' = d.other
    /\ sscan' = r.scan /\ sp' = r.vbb /\ osp' = r.other
    /\ UNCHANGED <<m_BBL, m_BBH, other, win0,
                   nBB, entry, mode, first, last, rc, vbb0, obb0, sp0, osp0,
                   sscan0>>

PNextBit ==
    /\ mode = "NON_DESTRUCTIVE"
    /\ \E g \in Garbage : PStep(BBScan_next_bit(nBB, vbb, scan, obb),
                                BBScanSp_next_bit(sp, sscan, osp, g))

PPrevBit ==
    /\ mode = "NON_DESTRUCTIVE_REVERSE"
    /\ \E g \in Garbage : PStep(BBScan_prev_bit(nBB, vbb, scan, obb),
                                BBScanSp_prev_bit(sp, sscan, osp, g))

PNextBitDel ==
    /\ mode = "DESTRUCTIVE"
    /\ \E g \in Garbage : PStep(BBScan_next_bit_del(nBB, vbb, scan, obb),
                                BBScanSp_next_bit_del(sp, sscan, osp, g))

PPrevBitDel ==
    /\ mode = "DESTRUCTIVE_REVERSE"
    /\ \E g \in Garbage : PStep(BBScan_prev_bit_del(nBB, vbb, scan, obb),
                                BBScanSp_prev_bit_del(sp, sscan, osp, g))

NextPair ==
    \/ PInitScan
    \/ PNextBit
    \/ PPrevBit
    \/ PNextBitDel
    \/ PPrevBitDel

SpecPair == InitPair /\ [][NextPair]_vars

---------------------------------------------------------------------------
(* Runs of two scanning bitsets, a dense A and a sparse B, each with its    *)
(* own cursor: a scan of the same type is begun on both, and then the steps *)
(* on A and the steps on B are taken in any order.  The blocks of A are     *)
(* empty or hold the bits of BitOffs, the records of B are without bits or  *)
(* hold the first bit of their block.  other holds the two cursors as the   *)
(* init_scan calls left them.                                               *)

InitInterleave ==
    /\ nBB \in 1 .. MaxDualBlocks
    /\ vbb \in [Blocks(nBB) -> {ALL_ZEROS, BitOffs}]
    /\ \E J \in SUBSET Blocks(nBB) :
           \E S \in SUBSET {WMUL(i) : i \in J} : sp = SparseOf(J, S)
    /\ obb = DenseOf(nBB, {}) /\ osp = <<>>
    /\ m_BBL = noBit /\ m_BBH = noBit /\ win0 = <<noBit, noBit>>
    /\ other = [scan |-> scan_t, sscan |-> scan_t]
    /\ scan = scan_t /\ sscan = scan_t /\ sscan0 = scan_t
    /\ entry = "NONE" /\ mode = "NONE" /\ first = noBit /\ last = noBit
    /\ rc = "0"
    /\ out = <<>> /\ sout = <<>>
    /\ vbb0 = vbb /\ obb0 = obb /\ sp0 = sp /\ osp0 = osp

\* A.init_scan(sct); B.init_scan(sct)
IInitScan ==
    \E sct \in ScanTypes :
        LET r == BBScanSp_init_scan(sp, sscan, sct)
        IN  /\ entry = "NONE"
            /\ scan' = BBScan_init_scan(nBB, scan, sct)
            /\ sscan' = r.scan /\ rc' = r.rc
            /\ other' = [scan |-> scan', sscan |-> sscan']
            /\ entry' = "init_scan" /\ mode' = sct /\ first' = noBit
            /\ out' = <<>> /\ sout' = <<>>
            /\ vbb0' = vbb /\ obb0' = obb /\ sp0' = sp /\ osp0' = osp
            /\ sscan0' = sscan
            /\ UNCHANGED <<m_BBL, m_BBH, win0, nBB, vbb, obb, sp, osp, last>>

NextInterleave ==
    \/ IInitScan
    \/ DNextBit
    \/ DPrevBit
    \/ DNextBitDel
    \/ DPrevBitDel
    \/ SNextBit
    \/ SPrevBit
    \/ SNextBitDel
    \/ SPrevBitDel

SpecInterleave == InitInterleave /\ [][NextInterleave]_vars

---------------------------------------------------------------------------
(* Runs of one sparse bitset, empty at first, whose ranges of bits are set *)

InitRange ==
    /\ nBB \in 1 .. MaxBlocks
    /\ sp = <<>> /\ osp = <<>>
    /\ sscan = scan_t /\ sscan0 = scan_t
    /\ entry = "NONE" /\ mode = "NONE" /\ first = noBit /\ last = noBit
    /\ rc = "0"
    /\ sout = <<>>
    /\ sp0 = sp /\ osp0 = osp
    /\ NoDense

\* the first and last bits of the ranges tried
RangeBits(n) == {WMUL(i) + o : i \in Blocks(n), o \in BitOffs}

\* The binary searches of the calls require sorted records: no call is made
\* on a bitset that a call has left unsorted.
RSetBit ==
    \E lo \in RangeBits(nBB), hi \in RangeBits(nBB), g \in GarbageAt(nBB) :
        /\ lo <= hi
        /\ Sorted(sp)
        /\ sp' \in BitSetSp_set_bit_range(sp, lo, hi, g)
        /\ entry' = "set_bit" /\ first' = lo /\ last' = hi /\ sp0' = sp
        /\ UNCHANGED <<m_BBL, m_BBH, other, win0,
                       nBB, vbb, obb, scan, osp, sscan, mode, rc, out, sout,
                       vbb0, obb0, osp0, sscan0>>

RResetBit ==
    \E lo \in RangeBits(nBB), hi \in RangeBits(nBB) :
        /\ lo <= hi
        /\ Sorted(sp)
        /\ sp' = BitSetSp_reset_bit_range(sp, lo, hi)
        /\ entry' = "reset_bit" /\ first' = lo /\ last' = hi /\ sp0' = sp
        /\ UNCHANGED <<m_BBL, m_BBH, other, win0,
                       nBB, vbb, obb, scan, osp, sscan, mode, rc, out, sout,
                       vbb0, obb0, osp0, sscan0>>

NextRange ==
    \/ RSetBit
    \/ RResetBit

SpecRange == InitRange /\ [][NextRange]_vars

---------------------------------------------------------------------------
(* Runs of two sparse bitsets A and B of the same capacity: the set algebra *)
(* of A with B as the argument                                             *)

InitAlgebra ==
    /\ nBB \in 1 .. MaxDualBlocks
    /\ sp \in SparseSets(nBB)
    /\ osp \in SparseSets(nBB)
    /\ sscan = scan_t /\ sscan0 = scan_t
    /\ entry = "NONE" /\ mode = "NONE" /\ first = noBit /\ last = noBit
    /\ rc = "0"
    /\ sout = <<>>
    /\ sp0 = sp /\ osp0 = osp
    /\ NoDense

\* a call on A with the argument B that leaves the records v
ACall(name, v) ==
    /\ Sorted(sp) /\ Sorted(osp)
    /\ sp' = v
    /\ entry' = name /\ first' = noBit /\ last' = noBit /\ rc' = "0"
    /\ sp0' = sp /\ osp0' = osp
    /\ UNCHANGED <<m_BBL, m_BBH, other, win0,
                   nBB, vbb, obb, scan, osp, sscan, mode, out, sout,
                   vbb0, obb0, sscan0>>

AOrAssign == \E v \in BitSetSp_or_assign(sp, osp) : ACall("|=", v)

AXorAssign == \E v \in BitSetSp_xor_assign(sp, osp) : ACall("^=", v)

AAndAssign == ACall("&=", BitSetSp_and_assign(sp, osp))

AEraseBit == ACall("erase_bit", BitSetSp_erase_bit_rhs(sp, osp))

\* set_block is called on the bitsets the runs begin with, which are all
\* the sorted bitsets of the capacity that the other calls lead to
ASetBlock ==
    \E fb \in Blocks(nBB), lb \in Blocks(nBB), g \in GarbageAt(nBB) :
        LET r == BitSetSp_set_block(sp, fb, lb, osp, g)
        IN  /\ fb <= lb
            /\ entry = "NONE"
            /\ Sorted(sp) /\ Sorted(osp)
            /\ sp' \in r.out
            /\ entry' = "set_block" /\ first' = fb /\ last' = lb
            /\ rc' = IF r.oob THEN "oob" ELSE "0"
            /\ sp0' = sp /\ osp0' = osp
            /\ UNCHANGED <<m_BBL, m_BBH, other, win0,
                           nBB, vbb, obb, scan, osp, sscan, mode, out, sout,
                           vbb0, obb0, sscan0>>

NextAlgebra ==
    \/ AOrAssign
    \/ AXorAssign
    \/ AAndAssign
    \/ AEraseBit
    \/ ASetBlock

SpecAlgebra == InitAlgebra /\ [][NextAlgebra]_vars

---------------------------------------------------------------------------
(* Runs of two sparse bitsets A and B of the same capacity in which A is    *)
(* united or intersected with B and complemented                            *)

AFlip == ACall("flip", BitSetSp_flip(nBB, sp))

NextComplement ==
    \/ AOrAssign
    \/ AAndAssign
    \/ AFlip

SpecComplement == InitAlgebra /\ [][NextComplement]_vars

----------------------------------------------------------------------------
(* Runs of a forward non-destructive scan of a sparse bitset A into which   *)
(* the records of B are inserted between the steps.  other.front tells      *)
(* whether an insertion has put another record at the cursor's position.    *)

KInitScan ==
    LET r == BBScanSp_init_scan(sp, sscan, "NON_DESTRUCTIVE")
    IN  /\ entry = "NONE"
        /\ sscan' = r.scan /\ rc' = r.rc
        /\ entry' = "init_scan" /\ mode' = "NON_DESTRUCTIVE" /\ first' = noBit
        /\ sout' = <<>> /\ sp0' = sp /\ osp0' = osp /\ sscan0' = sscan
        /\ other' = [front |-> FALSE]
        /\ UNCHANGED <<m_BBL, m_BBH, win0, nBB, vbb, obb, scan, sp, osp, out,
                       vbb0, obb0, last>>

KOrAssign ==
    /\ entry = "init_scan" /\ rc = "0"
    /\ Sorted(sp) /\ Sorted(osp)
    /\ \E v \in BitSetSp_or_assign(sp, osp) :
           /\ sp' = v
           /\ other' = [front |-> \/ other.front
                                  \/ v[sscan.bbi + 1].idx
                                         # sp[sscan.bbi + 1].idx]
    /\ UNCHANGED <<m_BBL, m_BBH, win0, nBB, vbb, obb, scan, osp, sscan, entry,
                   mode, first, last, rc, out, sout, vbb0, obb0, sp0, osp0,
                   sscan0>>

NextScanInsert ==
    \/ KInitScan
    \/ SNextBit
    \/ KOrAssign

SpecScanInsert == InitAlgebra /\ [][NextScanInsert]_vars

----------------------------------------------------------------------------
(* Runs of the lookups of a block in a sparse bitset A, which is united     *)
(* with B or complemented in between.  first is the block index looked up   *)
(* and other what the lookup returned.                                      *)

\* a lookup of the block blockID in A that returns r
LCall(name, blockID, r) ==
    /\ Sorted(sp)
    /\ entry' = name /\ first' = blockID /\ last' = noBit /\ rc' = "0"
    /\ other' = r
    /\ sp0' = sp /\ osp0' = osp
    /\ UNCHANGED <<m_BBL, m_BBH, win0,
                   nBB, vbb, obb, scan, sp, osp, sscan, mode, out, sout,
                   vbb0, obb0, sscan0>>

LFindBlock ==
    \E blockID \in 0 .. nBB :
        LCall("find_block", blockID, [bb |-> BitSetSp_find_block(sp, blockID)])

LFindBlockPos ==
    \E blockID \in 0 .. nBB :
        LCall("find_block_pos", blockID, BitSetSp_find_block_pos(sp, blockID))

NextLookup ==
    \/ AOrAssign
    \/ AFlip
    \/ LFindBlock
    \/ LFindBlockPos

SpecLookup == InitAlgebra /\ [][NextLookup]_vars

----------------------------------------------------------------------------
(* Bit scanning of one 64-bit word: unsigned arithmetic modulo 2^64 on the  *)
(* set of the offsets of the 1-bits, the lookup tables, and the             *)
(* implementations of lsb and msb                                           *)

\* the bit (0 or 1) of the word a at the offset i
BitAt(a, i) == IF i \in a THEN 1 ELSE 0

\* the bits from offset i on of a + b + c modulo 2^64, c the carry into i
RECURSIVE AddCarry(_, _, _, _)
AddCarry(a, b, i, c) ==
    IF i = WORD_SIZE THEN {}
    ELSE LET s == BitAt(a, i) + BitAt(b, i) + c
         IN  (IF s % 2 = 1 THEN {i} ELSE {}) \cup AddCarry(a, b, i + 1, s \div 2)

Add64(a, b) == AddCarry(a, b, 0, 0)

\* -a and ~a + 1 of an unsigned 64-bit a
Neg64(a) == Add64(Not(a), {0})

\* a - 1
Dec64(a) == Add64(a, ALL_ONES)

\* a << k and a >> k
Shl64(a, k) == {i + k : i \in {j \in a : j + k < WORD_SIZE}}
Shr64(a, k) == {i - k : i \in {j \in a : j >= k}}

\* a * b modulo 2^64 by long multiplication: the bits from offset k on, c
\* being the carry into the column k of the products of a bit of a and a
\* bit of b
RECURSIVE MulCarry(_, _, _, _)
MulCarry(a, b, k, c) ==
    IF k = WORD_SIZE THEN {}
    ELSE LET s == Cardinality({i \in a : (k - i) \in b}) + c
         IN  (IF s % 2 = 1 THEN {k} ELSE {}) \cup MulCarry(a, b, k + 1, s \div 2)

Mul64(a, b) == MulCarry(a, b, 0, 0)

\* a % m, p being 2^i % m
RECURSIVE ModFrom(_, _, _, _)
ModFrom(a, m, i, p) ==
    IF i = WORD_SIZE THEN 0
    ELSE (BitAt(a, i) * p + ModFrom(a, m, i + 1, (2 * p) % m)) % m

Mod64(a, m) == ModFrom(a, m, 0, 1 % m)

\* the number a word of few bits stands for (an index into a table)
RECURSIVE ValueFrom(_, _, _)
ValueFrom(a, i, p) ==
    IF a = {} \/ i > Max(a) THEN 0
    ELSE BitAt(a, i) * p + ValueFrom(a, i + 1, 2 * p)

Value(a) == ValueFrom(a, 0, 1)

\* the word written as 16 hexadecimal digits, the most significant first
HexWord(d) ==
    LET p == <<1, 2, 4, 8>>
    IN  {i \in ALL_ONES : (d[16 - (i \div 4)] \div p[(i % 4) + 1]) % 2 = 1}

DEBRUIJN_MN_64_ISOL ==
    HexWord(<<0, 7, 14, 13, 13, 5, 14, 5, 9, 10, 4, 14, 2, 8, 12, 2>>)
DEBRUIJN_MN_64_SEP ==
    HexWord(<<0, 3, 15, 7, 9, 13, 7, 1, 11, 4, 12, 11, 0, 10, 8, 9>>)
DEBRUIJN_MN_64_SHIFT == 58

\* Tables::T_64, Tables::indexDeBruijn64_ISOL, Tables::indexDeBruijn64_SEP
\* (index k of the array is position k + 1)
T_64 ==
    <<-1, 0, 1, 39, 2, 15, 40, 23,
      3, 12, 16, 59, 41, 19, 24, 54,
      4, -1, 13, 10, 17, 62, 60, 28,
      42, 30, 20, 51, 25, 44, 55, 47,
      5, 32, -1, 38, 14, 22, 11, 58,
      18, 53, 63, 9, 61, 27, 29, 50,
      43, 46, 31, 37, 21, 57, 52, 8,
      26, 49, 45, 36, 56, 7, 48, 35,
      6, 34, 33>>

indexDeBruijn64_ISOL ==
    <<63, 0, 58, 1, 59, 47, 53, 2,
      60, 39, 48, 27, 54, 33, 42, 3,
      61, 51, 37, 40, 49, 18, 28, 20,
      55, 30, 34, 11, 43, 14, 22, 4,
      62, 57, 46, 52, 38, 26, 32, 41,
      50, 36, 17, 19, 29, 10, 13, 21,
      56, 45, 25, 31, 35, 16, 9, 12,
      44, 24, 15, 8, 23, 7, 6, 5>>

indexDeBruijn64_SEP ==
    <<0, 47, 1, 56, 48, 27, 2, 60,
      57, 49, 41, 37, 28, 16, 3, 61,
      54, 58, 35, 52, 50, 42, 21, 44,
      38, 32, 29, 23, 17, 11, 4, 62,
      46, 55, 26, 59, 40, 36, 15, 53,
      34, 51, 20, 43, 31, 22, 10, 45,
      25, 39, 14, 33, 19, 30, 9, 24,
      13, 18, 8, 12, 7, 6, 5, 63>>

\* (U16)(bb >> 16 * k), and val.c[k] of the union of U16 c[4] with the word
\* on the little-endian machines the library is built for
U16(bb, k) == {i \in Shr64(bb, 16 * k) : i < 16}

\* Tables::init_mlsb: lsb[c] and msb[c] of a 16-bit c are the first k with
\* the bit k of c set, counting up from 0 and down from 15
RECURSIVE FirstUp(_, _)
FirstUp(c, k) == IF k \in c THEN k ELSE FirstUp(c, k + 1)

RECURSIVE FirstDown(_, _)
FirstDown(c, k) == IF k \in c THEN k ELSE FirstDown(c, k - 1)

Tables_lsb(c) == IF c = {} THEN EMPTY_ELEM ELSE FirstUp(c, 0)
Tables_msb(c) == IF c = {} THEN EMPTY_ELEM ELSE FirstDown(c, 15)

Tables_lsba(k, c) == IF c = {} THEN EMPTY_ELEM ELSE Tables_lsb(c) + k * 16
Tables_msba(k, c) == IF c = {} THEN EMPTY_ELEM ELSE Tables_msb(c) + k * 16

\* Tables::init_popc: pc[c] counts the k in 0..15 with the bit k of c set
Tables_pc(c) == Cardinality({k \in 0 .. 15 : k \in c})

popc64(bb) ==
    Tables_pc(U16(bb, 0)) + Tables_pc(U16(bb, 1))
        + Tables_pc(U16(bb, 2)) + Tables_pc(U16(bb, 3))

lsb64_intrinsic(bb) == IF bb # ALL_ZEROS THEN lsb(bb) ELSE EMPTY_ELEM

msb64_intrinsic(bb) == IF bb # ALL_ZEROS THEN msb(bb) ELSE EMPTY_ELEM

\* the hash of the isolated bit with a shift in place of the product
lsb64_de_Bruijn_no_product(bb) ==
    IF bb = ALL_ZEROS THEN EMPTY_ELEM
    ELSE indexDeBruijn64_SEP[
             Value(Shr64(Xor(bb, Dec64(bb)), DEBRUIJN_MN_64_SHIFT)) + 1]

\* lsb64_de_Bruijn as built (ISOLANI_LSB is not defined)
lsb64_de_Bruijn(bb) ==
    IF bb = ALL_ZEROS THEN EMPTY_ELEM
    ELSE indexDeBruijn64_SEP[
             Value(Shr64(Mul64(Xor(bb, Dec64(bb)), DEBRUIJN_MN_64_SEP),
                         DEBRUIJN_MN_64_SHIFT)) + 1]

\* lsb64_de_Bruijn as built with ISOLANI_LSB defined
lsb64_de_Bruijn_ISOL(bb) ==
    IF bb = ALL_ZEROS THEN EMPTY_ELEM
    ELSE indexDeBruijn64_ISOL[
             Value(Shr64(Mul64(bb \cap Neg64(bb), DEBRUIJN_MN_64_ISOL),
                         DEBRUIJN_MN_64_SHIFT)) + 1]

\* bb |= bb >> 1; ... ; bb |= bb >> 32
RECURSIVE Smear(_, _)
Smear(bb, k) ==
    IF k > 32 THEN bb ELSE Smear(bb \cup Shr64(bb, k), 2 * k)

msb64_de_Bruijn(bb) ==
    IF bb = ALL_ZEROS THEN EMPTY_ELEM
    ELSE indexDeBruijn64_SEP[
             Value(Shr64(Mul64(Smear(bb, 1), DEBRUIJN_MN_64_SEP),
                         DEBRUIJN_MN_64_SHIFT)) + 1]

lsb64_lup(bb) ==
    IF bb # ALL_ZEROS /\ \E k \in 0 .. 3 : U16(bb, k) # {}
    THEN LET k == Min({j \in 0 .. 3 : U16(bb, j) # {}})
         IN  Tables_lsba(k, U16(bb, k))
    ELSE EMPTY_ELEM

lsb64_pc(bb) ==
    IF bb # ALL_ZEROS THEN popc64(Dec64(bb \cap Neg64(bb)))
    ELSE EMPTY_ELEM

lsb64_mod(bb) ==
    IF bb # ALL_ZEROS
    THEN T_64[Mod64(bb \cap Add64(Not(bb), {0}), 67) + 1]
    ELSE EMPTY_ELEM

lsb64_lup_eff(bb) ==
    IF bb # ALL_ZEROS
    THEN IF U16(bb, 0) # {} THEN Tables_lsb(U16(bb, 0))
         ELSE IF U16(bb, 1) # {} THEN Tables_lsb(U16(bb, 1)) + 16
         ELSE IF U16(bb, 2) # {} THEN Tables_lsb(U16(bb, 2)) + 32
         ELSE Tables_lsb(U16(bb, 3)) + 48
    ELSE EMPTY_ELEM

msb64_lup(bb) ==
    IF bb # ALL_ZEROS /\ \E k \in 0 .. 3 : U16(bb, k) # {}
    THEN LET k == Max({j \in 0 .. 3 : U16(bb, j) # {}})
         IN  Tables_msba(k, U16(bb, k))
    ELSE EMPTY_ELEM

LsbNames ==
    {"lsb64_intrinsic", "lsb64_de_Bruijn", "lsb64_de_Bruijn_ISOL",
     "lsb64_mod", "lsb64_pc", "lsb64_lup", "lsb64_lup_eff"}
MsbNames == {"msb64_intrinsic", "msb64_de_Bruijn", "msb64_lup"}

(* Runs of the bit scanning of one word, block 0 of A, a full word at       *)
(* first: an implementation of lsb or msb is called on it, and the bit      *)
(* returned is removed before the next call (the bitscanning loop of        *)
(* bblock::print, bb ^= Tables::mask[nBit]), until the word is zero.  entry *)
(* is the implementation last called and first what it returned.            *)

InitBitScan ==
    /\ nBB = 1
    /\ vbb = DenseOf(nBB, ALL_ONES) /\ obb = DenseOf(nBB, {})
    /\ scan = scan_t /\ out = <<>> /\ vbb0 = vbb /\ obb0 = obb
    /\ entry = "NONE" /\ mode = "NONE" /\ first = noBit /\ last = noBit
    /\ rc = "0"
    /\ NoSparse

\* the call of the implementation name on the word, returning r
BCall(name, r) ==
    /\ entry \in {"NONE", "remove"}
    /\ entry' = name /\ first' = r
    /\ UNCHANGED <<nBB, vbb, obb, scan, sp, osp, sscan, mode, last, rc, out,
                   sout, vbb0, obb0, sp0, osp0, sscan0, m_BBL, m_BBH, other,
                   win0>>

BLsbIntrinsic == BCall("lsb64_intrinsic", lsb64_intrinsic(vbb[0]))
BLsbDeBruijn == BCall("lsb64_de_Bruijn", lsb64_de_Bruijn(vbb[0]))
BLsbDeBruijnIsol == BCall("lsb64_de_Bruijn_ISOL", lsb64_de_Bruijn_ISOL(vbb[0]))
BLsbMod == BCall("lsb64_mod", lsb64_mod(vbb[0]))
BLsbPc == BCall("lsb64_pc", lsb64_pc(vbb[0]))
BLsbLup == BCall("lsb64_lup", lsb64_lup(vbb[0]))
BLsbLupEff == BCall("lsb64_lup_eff", lsb64_lup_eff(vbb[0]))
BMsbIntrinsic == BCall("msb64_intrinsic", msb64_intrinsic(vbb[0]))
BMsbDeBruijn == BCall("msb64_de_Bruijn", msb64_de_Bruijn(vbb[0]))
BMsbLup == BCall("msb64_lup", msb64_lup(vbb[0]))

\* bb ^= Tables::mask[nBit] while nBit is not EMPTY_ELEM
BRemove ==
    /\ entry \in LsbNames \cup MsbNames
    /\ first # EMPTY_ELEM
    /\ vbb' = [vbb EXCEPT ![0] = Xor(@, mask(first))]
    /\ entry' = "remove"
    /\ UNCHANGED <<nBB, obb, scan, sp, osp, sscan, mode, first, last, rc,
                   out, sout, vbb0, obb0, sp0, osp0, sscan0, m_BBL, m_BBH,
                   other, win0>>

NextBitScan ==
    \/ BLsbIntrinsic
    \/ BLsbDeBruijn
    \/ BLsbDeBruijnIsol
    \/ BLsbMod
    \/ BLsbPc
    \/ BLsbLup
    \/ BLsbLupEff
    \/ BMsbIntrinsic
    \/ BMsbDeBruijn
    \/ BMsbLup
    \/ BRemove

SpecBitScan == InitBitScan /\ [][NextBitScan]_vars

---------------------------------------------------------------------------
(* Runs of one sentinel bitset: constructed with a capacity, then any of    *)
(* its public operations.  Of the last call that is not a scan step, entry  *)
(* is the name, first the bit argument, win0 the window before it and vbb0  *)
(* the blocks it left; rc is what the last call returned ("0", "-1",        *)
(* "true", "false"), or "oob" when it indexed a block outside the vector.   *)

\* BBSentinel(popsize) with popsize bits in n blocks: no bit set,
\* init_sentinels(false)
Constructed(n) ==
    /\ nBB = n
    /\ vbb = DenseOf(n, {})
    /\ m_BBL = BBSentinel_init_sentinels(n, vbb, FALSE).m_BBL
    /\ m_BBH = BBSentinel_init_sentinels(n, vbb, FALSE).m_BBH
    /\ obb = DenseOf(n, {})
    /\ scan = scan_t
    /\ entry = "NONE" /\ mode = "NONE" /\ first = noBit /\ last = noBit
    /\ rc = "0"
    /\ out = <<>>
    /\ vbb0 = vbb /\ obb0 = obb /\ win0 = <<m_BBL, m_BBH>>
    /\ other = <<>>
    /\ sp = <<>> /\ osp = <<>> /\ sscan = scan_t /\ sout = <<>>
    /\ sp0 = <<>> /\ osp0 = <<>> /\ sscan0 = scan_t

InitSentinel == \E n \in 1 .. MaxSentinelBlocks : Constructed(n)

\* the bitsets passed as arguments: every block empty or holding the bits
\* the runs set
Operands(n) == [Blocks(n) -> {ALL_ZEROS, BitOffs}]

\* the sentinel bitsets passed as arguments: one of each window, every
\* block of the window holding the bits the runs set and the others empty
SentinelOperands(n) ==
    {[vbb |-> [i \in Blocks(n) |-> IF i \in w[1] .. w[2] THEN BitOffs
                                                        ELSE ALL_ZEROS],
      m_BBL |-> w[1], m_BBH |-> w[2]] :
        w \in Windows(n) \cup {<<noBit, noBit>>}}

RcOf(ret) == IF ret = 0 THEN "0" ELSE "-1"

\* a call other than a scan step that leaves blocks v, window l..h, cursor sc
\* and was passed the bitsets o
WCallWith(name, arg, v, l, h, sc, r, o) ==
    /\ entry' = name /\ first' = arg /\ rc' = r
    /\ vbb' = v /\ m_BBL' = l /\ m_BBH' = h /\ scan' = sc
    /\ vbb0' = v /\ win0' = <<m_BBL, m_BBH>>
    /\ mode' = "NONE" /\ out' = <<>>
    /\ other' = o
    /\ UNCHANGED <<nBB, obb, sp, osp, sscan, last, sout, obb0, sp0, osp0,
                   sscan0>>

WCall(name, arg, v, l, h, sc, r) ==
    WCallWith(name, arg, v, l, h, sc, r, << >>)

WSetBit ==
    \E bit \in Universe(nBB) :
        WCall("set_bit", bit, BitSet_set_bit(vbb, bit), m_BBL, m_BBH, scan,
              "0")

WEraseBitAt ==
    \E bit \in Universe(nBB) :
        WCall("erase_bit(int)", bit, BitSet_erase_bit(vbb, bit), m_BBL,
              m_BBH, scan, "0")

WEraseBit ==
    WCall("erase_bit()", noBit, BBSentinel_erase_bit(vbb, m_BBL, m_BBH),
          m_BBL, m_BBH, scan, "0")

WEraseBitBbn ==
    \E bbn \in Operands(nBB) :
        WCall("erase_bit(bbn)", noBit,
              BBSentinel_erase_bit_bbn(vbb, m_BBL, m_BBH, bbn), m_BBL, m_BBH,
              scan, "0")

WAndAssign ==
    \E bbn \in Operands(nBB) :
        WCall("&=", noBit, BBSentinel_and_assign(vbb, m_BBL, m_BBH, bbn),
              m_BBL, m_BBH, scan, "0")

WEraseBitAndUpdate ==
    \E nBit \in Universe(nBB) :
        LET r == BBSentinel_erase_bit_and_update(vbb, m_BBL, m_BBH, nBit)
        IN  WCall("erase_bit_and_update", nBit, r.vbb, r.m_BBL, r.m_BBH,
                  scan, "0")

WUpdateSentinels ==
    LET r == BBSentinel_update_sentinels(vbb, m_BBL, m_BBH)
    IN  WCall("update_sentinels", noBit, vbb, r.m_BBL, r.m_BBH, scan,
              RcOf(r.ret))

WUpdateSentinelsIn ==
    \E w \in Windows(nBB) \cup {<<EMPTY_ELEM, EMPTY_ELEM>>} :
        LET r == BBSentinel_update_sentinels_in(vbb, m_BBL, m_BBH, w[1],
                                                w[2])
        IN  WCall("update_sentinels(bbl,bbh)", noBit, vbb, r.m_BBL, r.m_BBH,
                  scan, RcOf(r.ret))

WUpdateSentinelsHigh ==
    LET r == BBSentinel_update_sentinels_high(vbb, m_BBL, m_BBH)
    IN  WCall("update_sentinels_high", noBit, vbb, r.m_BBL, r.m_BBH, scan,
              RcOf(r.ret))

WUpdateSentinelsLow ==
    LET r == BBSentinel_update_sentinels_low(vbb, m_BBL, m_BBH)
    IN  WCall("update_sentinels_low", noBit, vbb, r.m_BBL, r.m_BBH, scan,
              RcOf(r.ret))

WUpdateSentinelsToV ==
    \E v \in Universe(nBB) :
        LET r == BBSentinel_update_sentinels_to_v(m_BBL, m_BBH, v)
        IN  WCall("update_sentinels_to_v", v, vbb, r.m_BBL, r.m_BBH, scan,
                  "0")

\* set_sentinels(low, high); set_sentinel_L(i) and set_sentinel_H(i) are the
\* calls that leave the other sentinel as it is
WSetSentinels ==
    \E w \in Windows(nBB) :
        WCall("set_sentinels", noBit, vbb, w[1], w[2], scan, "0")

WClearSentinels ==
    WCall("clear_sentinels", noBit, vbb, EMPTY_ELEM, EMPTY_ELEM, scan, "0")

WInitSentinels ==
    \E update \in BOOLEAN :
        LET r == BBSentinel_init_sentinels(nBB, vbb, update)
        IN  WCall("init_sentinels", noBit, vbb, r.m_BBL, r.m_BBH, scan, "0")

WIsEmpty ==
    WCall("is_empty", noBit, vbb, m_BBL, m_BBH, scan,
          IF BBSentinel_is_empty(m_BBL, m_BBH) THEN "true" ELSE "false")

WCopyAssign ==
    \E bbs \in SentinelOperands(nBB) :
        LET r == BBSentinel_copy_assign(vbb, bbs)
        IN  WCallWith("=", noBit, r.vbb, r.m_BBL, r.m_BBH, scan, "0", bbs)

WAnd ==
    \E lhs \in Operands(nBB), rhs \in SentinelOperands(nBB) :
        LET r == AND(lhs, rhs, vbb)
        IN  WCallWith("AND", noBit, r.vbb, r.m_BBL, r.m_BBH, scan,
                      IF r.oob THEN "oob" ELSE "0",
                      [lhs |-> lhs, rhs |-> rhs])

\* the scans begun are the destructive ones, whose steps move the sentinels
WInitScan ==
    \E sct \in {"DESTRUCTIVE", "DESTRUCTIVE_REVERSE"} :
        LET r == BBSentinel_init_scan(vbb, m_BBL, m_BBH, scan, sct)
        IN  /\ entry' = "init_scan" /\ first' = noBit /\ rc' = "0"
            /\ mode' = sct /\ out' = <<>>
            /\ m_BBL' = r.m_BBL /\ m_BBH' = r.m_BBH /\ scan' = r.scan
            /\ vbb0' = vbb /\ win0' = <<m_BBL, m_BBH>>
            /\ other' = << >>
            /\ UNCHANGED <<nBB, vbb, obb, sp, osp, sscan, last, sout, obb0,
                           sp0, osp0, sscan0>>

\* a scan step of the scan init_scan began; r is what the step's code
\* computes.  No step is taken after one that indexed outside the vector.
WStep(r) ==
    /\ NoBits(out) < MaxTail
    /\ rc # "oob"
    /\ out' = Append(out, r.ret)
    /\ rc' = IF r.oob THEN "oob" ELSE rc
    /\ vbb' = r.vbb /\ m_BBL' = r.m_BBL /\ m_BBH' = r.m_BBH /\ scan' = r.scan
    /\ UNCHANGED <<nBB, obb, sp, osp, sscan, entry, mode, first, last, sout,
                   vbb0, obb0, sp0, osp0, sscan0, other, win0>>

WNextBitDel ==
    /\ mode = "DESTRUCTIVE"
    /\ \E g \in GarbageWords :
           WStep(BBSentinel_next_bit_del(vbb, m_BBL, m_BBH, scan, g))

WPrevBitDel ==
    /\ mode = "DESTRUCTIVE_REVERSE"
    /\ \E g \in GarbageWords :
           WStep(BBSentinel_prev_bit_del(vbb, m_BBL, m_BBH, scan, g))

NextSentinel ==
    \/ WSetBit
    \/ WEraseBitAt
    \/ WEraseBit
    \/ WEraseBitBbn
    \/ WAndAssign
    \/ WEraseBitAndUpdate
    \/ WUpdateSentinels
    \/ WUpdateSentinelsIn
    \/ WUpdateSentinelsHigh
    \/ WUpdateSentinelsLow
    \/ WUpdateSentinelsToV
    \/ WSetSentinels
    \/ WClearSentinels
    \/ WInitSentinels
    \/ WIsEmpty
    \/ WCopyAssign
    \/ WAnd
    \/ WInitScan
    \/ WNextBitDel
    \/ WPrevBitDel

SpecSentinel == InitSentinel /\ [][NextSentinel]_vars

---------------------------------------------------------------------------
(* Runs of the scans of one sentinel bitset A: bits are set in A and in a   *)
(* second bitset B of the same capacity, init_scan is called on A, and then *)
(* the steps of the scan, next_bit_del(B) among them                        *)

XSetBitB ==
    \E bit \in Universe(nBB) :
        /\ mode = "NONE"
        /\ obb' = BitSet_set_bit(obb, bit) /\ obb0' = obb'
        /\ UNCHANGED <<nBB, vbb, scan, sp, osp, sscan, entry, mode, first,
                       last, rc, out, sout, vbb0, sp0, osp0, sscan0, m_BBL,
                       m_BBH, other, win0>>

XInitScan ==
    \E sct \in {"NON_DESTRUCTIVE", "DESTRUCTIVE", "DESTRUCTIVE_REVERSE"} :
        LET r == BBSentinel_init_scan(vbb, m_BBL, m_BBH, scan, sct)
        IN  /\ entry' = "init_scan" /\ first' = noBit /\ rc' = "0"
            /\ mode' = sct /\ out' = <<>>
            /\ m_BBL' = r.m_BBL /\ m_BBH' = r.m_BBH /\ scan' = r.scan
            /\ vbb0' = vbb /\ win0' = <<m_BBL, m_BBH>>
            /\ other' = << >>
            /\ UNCHANGED <<nBB, vbb, obb, sp, osp, sscan, last, sout, obb0,
                           sp0, osp0, sscan0>>

XNextBit ==
    /\ mode = "NON_DESTRUCTIVE"
    /\ \E g \in GarbageWords :
           LET r == BBSentinel_next_bit(vbb, m_BBL, m_BBH, scan, g)
           IN  WStep([ret |-> r.ret, vbb |-> vbb, m_BBL |-> m_BBL,
                      m_BBH |-> m_BBH, scan |-> r.scan, oob |-> r.oob])

XNextBitDelOther ==
    /\ mode = "DESTRUCTIVE"
    /\ NoBits(out) < MaxTail
    /\ rc # "oob"
    /\ \E g \in GarbageWords :
           LET r == BBSentinel_next_bit_del_other(vbb, m_BBL, m_BBH, scan,
                                                  obb, g)
           IN  /\ out' = Append(out, r.ret)
               /\ rc' = IF r.oob THEN "oob" ELSE rc
               /\ vbb' = r.vbb /\ m_BBL' = r.m_BBL /\ m_BBH' = r.m_BBH
               /\ scan' = r.scan /\ obb' = r.other
    /\ UNCHANGED <<nBB, sp, osp, sscan, entry, mode, first, last, sout, vbb0,
                   obb0, sp0, osp0, sscan0, other, win0>>

NextSentinelScan ==
    \/ WSetBit
    \/ XSetBitB
    \/ XInitScan
    \/ XNextBit
    \/ WNextBitDel
    \/ XNextBitDelOther
    \/ WPrevBitDel

SpecSentinelScan == InitSentinel /\ [][NextSentinelScan]_vars

---------------------------------------------------------------------------
(* Runs of one sentinel bitset of up to MaxBlocks blocks on which bits are  *)
(* set and erased and the window is set and updated                         *)

InitWindow == \E n \in 1 .. MaxBlocks : Constructed(n)

NextWindow ==
    \/ WSetBit
    \/ WEraseBitAndUpdate
    \/ WUpdateSentinels
    \/ WUpdateSentinelsToV
    \/ WSetSentinels
    \/ WClearSentinels

SpecWindow == InitWindow /\ [][NextWindow]_vars

---------------------------------------------------------------------------
(* Runs of two bitsets of one class, BBScan or BBSentinel: A is built, has   *)
(* bits set and is scanned non-destructively; B is move-constructed from A, *)
(* or constructed and then move-assigned from A, and the scan is continued  *)
(* on B.  other holds the class, whether B has been constructed, and B.     *)
(* vbb0 and win0 are the blocks and the window init_scan found on A.        *)

MaxMoveBlocks == 2      \* block capacities 1..MaxMoveBlocks of A and B

Classes == {"BBScan", "BBSentinel"}
Moves == {"move_ctor", "move_assign"}

\* BBScan(popsize) and BBSentinel(popsize) with popsize bits in n blocks
New(class, n) ==
    IF class = "BBSentinel"
    THEN LET w == BBSentinel_init_sentinels(n, DenseOf(n, {}), FALSE)
         IN  Object(n, DenseOf(n, {}), scan_t, w.m_BBL, w.m_BBH)
    ELSE Object(n, DenseOf(n, {}), scan_t, noBit, noBit)

\* the storage of an object before its constructor has run
Raw == Object(0, << >>, scan_t, noBit, noBit)

ObjA == Object(nBB, vbb, scan, m_BBL, m_BBH)

SetA(o) ==
    /\ nBB' = o.nBB /\ vbb' = o.vbb /\ scan' = o.scan
    /\ m_BBL' = o.m_BBL /\ m_BBH' = o.m_BBH

InitMove ==
    \E class \in Classes, n \in 1 .. MaxMoveBlocks :
        /\ nBB = n /\ vbb = New(class, n).vbb /\ scan = New(class, n).scan
        /\ m_BBL = New(class, n).m_BBL /\ m_BBH = New(class, n).m_BBH
        /\ other = [class |-> class, live |-> FALSE, obj |-> Raw]
        /\ obb = DenseOf(n, {})
        /\ entry = "NONE" /\ mode = "NONE" /\ first = noBit /\ last = noBit
        /\ rc = "0"
        /\ out = <<>>
        /\ vbb0 = vbb /\ obb0 = obb /\ win0 = <<m_BBL, m_BBH>>
        /\ sp = <<>> /\ osp = <<>> /\ sscan = scan_t /\ sout = <<>>
        /\ sp0 = <<>> /\ osp0 = <<>> /\ sscan0 = scan_t

\* A.set_bit(bit)
MSetBit ==
    \E bit \in Universe(nBB) :
        /\ vbb' = BitSet_set_bit(vbb, bit)
        /\ entry' = "set_bit" /\ rc' = "0"
        /\ mode' = "NONE" /\ out' = <<>>
        /\ UNCHANGED <<nBB, scan, m_BBL, m_BBH, other, win0, vbb0, first,
                       obb, sp, osp, sscan, last, sout, obb0, sp0, osp0,
                       sscan0>>

\* A.init_scan(NON_DESTRUCTIVE)
MInitScan ==
    /\ nBB > 0
    /\ IF other.class = "BBSentinel"
       THEN LET r == BBSentinel_init_scan(vbb, m_BBL, m_BBH, scan,
                                          "NON_DESTRUCTIVE")
            IN  scan' = r.scan /\ m_BBL' = r.m_BBL /\ m_BBH' = r.m_BBH
       ELSE /\ scan' = BBScan_init_scan(nBB, scan, "NON_DESTRUCTIVE")
            /\ UNCHANGED <<m_BBL, m_BBH>>
    /\ entry' = "init_scan" /\ first' = noBit /\ rc' = "0"
    /\ mode' = "NON_DESTRUCTIVE" /\ out' = <<>>
    /\ vbb0' = vbb /\ win0' = <<m_BBL, m_BBH>>
    /\ UNCHANGED <<nBB, vbb, other, obb, sp, osp, sscan, last, sout, obb0,
                   sp0, osp0, sscan0>>

\* next_bit() on the object o of the class of the run; g is the word a read
\* outside the vector yields
next_bit(o, g) ==
    IF other.class = "BBSentinel"
    THEN BBSentinel_next_bit(o.vbb, o.m_BBL, o.m_BBH, o.scan, g)
    ELSE LET r == BBScan_next_bit(o.nBB, o.vbb, o.scan, o.vbb)
         IN  [ret |-> r.ret, scan |-> r.scan, oob |-> FALSE]

\* A.next_bit()
MNextBit ==
    /\ nBB > 0 /\ mode = "NON_DESTRUCTIVE"
    /\ NoBits(out) < MaxTail /\ rc # "oob"
    /\ \E g \in GarbageWords :
           LET r == next_bit(ObjA, g)
           IN  /\ out' = Append(out, r.ret) /\ scan' = r.scan
               /\ rc' = IF r.oob THEN "oob" ELSE rc
    /\ UNCHANGED <<nBB, vbb, m_BBL, m_BBH, other, win0, vbb0, entry, mode,
                   first, obb, sp, osp, sscan, last, sout, obb0, sp0, osp0,
                   sscan0>>

\* what happens to B leaves A and its scan alone
BFrame ==
    UNCHANGED <<nBB, vbb, scan, m_BBL, m_BBH, win0, vbb0, entry, mode, first,
                rc, out, obb, sp, osp, sscan, last, sout, obb0, sp0, osp0,
                sscan0>>

\* B is constructed with a capacity
MConstructB ==
    /\ ~other.live
    /\ \E n \in 1 .. MaxMoveBlocks :
           other' = [other EXCEPT !.live = TRUE, !.obj = New(other.class, n)]
    /\ BFrame

\* B.set_bit(bit), before A is moved into B
MSetBitB ==
    /\ other.live /\ entry \notin Moves
    /\ \E bit \in {WMUL(i) : i \in Blocks(other.obj.nBB)} :
           other' = [other EXCEPT !.obj.vbb = BitSet_set_bit(@, bit)]
    /\ BFrame

\* the move r of A into B
Moved(name, r) ==
    /\ other' = [other EXCEPT !.live = TRUE, !.obj = r.this]
    /\ SetA(r.other)
    /\ entry' = name
    /\ UNCHANGED <<win0, vbb0, mode, first, rc, out, obb, sp, osp, sscan,
                   last, sout, obb0, sp0, osp0, sscan0>>

\* B is constructed from std::move(A)
MMoveCtor ==
    /\ ~other.live /\ nBB > 0
    /\ Moved("move_ctor",
             IF other.class = "BBSentinel"
             THEN BBSentinel_move_ctor(Raw, ObjA)
             ELSE BBScan_move_ctor(Raw, ObjA))

\* B = std::move(A)
MMoveAssign ==
    /\ other.live /\ nBB > 0
    /\ Moved("move_assign",
             IF other.class = "BBSentinel"
             THEN BBSentinel_move_assign(other.obj, ObjA, FALSE)
             ELSE BBScan_move_assign(other.obj, ObjA, FALSE))

\* A = std::move(A)
MSelfMoveAssign ==
    /\ nBB > 0 /\ entry # "self_move_assign"
    /\ LET r == IF other.class = "BBSentinel"
                THEN BBSentinel_move_assign(ObjA, ObjA, TRUE)
                ELSE BBScan_move_assign(ObjA, ObjA, TRUE)
       IN  SetA(r.this)
    /\ entry' = "self_move_assign"
    /\ UNCHANGED <<other, win0, vbb0, mode, first, rc, out, obb, sp, osp,
                   sscan, last, sout, obb0, sp0, osp0, sscan0>>

\* B.next_bit(), continuing on B the scan begun on A
MNextBitB ==
    /\ entry \in Moves /\ mode = "NON_DESTRUCTIVE"
    /\ NoBits(out) < MaxTail /\ rc # "oob"
    /\ \E g \in GarbageWords :
           LET r == next_bit(other.obj, g)
           IN  /\ out' = Append(out, r.ret)
               /\ other' = [other EXCEPT !.obj.scan = r.scan]
               /\ rc' = IF r.oob THEN "oob" ELSE rc
    /\ UNCHANGED <<nBB, vbb, scan, m_BBL, m_BBH, win0, vbb0, entry, mode,
                   first, obb, sp, osp, sscan, last, sout, obb0, sp0, osp0,
                   sscan0>>

NextMove ==
    \/ MSetBit
    \/ MInitScan
    \/ MNextBit
    \/ MConstructB
    \/ MSetBitB
    \/ MMoveCtor
    \/ MMoveAssign
    \/ MSelfMoveAssign
    \/ MNextBitB

SpecMove == InitMove /\ [][NextMove]_vars

---------------------------------------------------------------------------
(* What a scan is to return *)

\* o is a run of calls that returned e[1], e[2], ... and noBit from then on
Returns(o, e) ==
    \A i \in DOMAIN o : o[i] = IF i <= Len(e) THEN e[i] ELSE noBit

Returned(o) == {o[i] : i \in DOMAIN o} \ {noBit}

Forward(m) == m \in {"NON_DESTRUCTIVE", "DESTRUCTIVE"}
NonDestructive(m) == m \in {"NON_DESTRUCTIVE", "NON_DESTRUCTIVE_REVERSE"}
Destructive(m) == m \in {"DESTRUCTIVE", "DESTRUCTIVE_REVERSE"}

\* the bits of S in the scan order of m
InOrder(S, m) == IF Forward(m) THEN AscSeq(S) ELSE DescSeq(S)

\* the bits of S strictly beyond f in the direction of m (all of S for noBit)
Beyond(S, f, m) ==
    IF f = noBit THEN S
    ELSE IF Forward(m) THEN {b \in S : b > f} ELSE {b \in S : b < f}

---------------------------------------------------------------------------
(* C1: after init_scan(NON_DESTRUCTIVE) the calls of next_bit() on a dense   *)
(* bitset return its bits in ascending order and then noBit, after          *)
(* init_scan(NON_DESTRUCTIVE_REVERSE) the calls of prev_bit() return them   *)
(* in descending order and then noBit, and no block is changed by the scan. *)
C1_NonDestructiveScan ==
    (entry = "init_scan" /\ NonDestructive(mode)) =>
        /\ Returns(out, InOrder(Bits(vbb0), mode))
        /\ vbb = vbb0

\* a reverse scan that returned three bits of two blocks and then noBit
C1_Witness ==
    /\ entry = "init_scan" /\ mode = "NON_DESTRUCTIVE_REVERSE"
    /\ Len(out) = 4 /\ out[4] = noBit
    /\ WDIV(out[1]) # WDIV(out[3])

(* C2: after init_scan(DESTRUCTIVE) the calls of next_bit_del() return the   *)
(* bits in ascending order and then noBit, after                            *)
(* init_scan(DESTRUCTIVE_REVERSE) the calls of prev_bit_del() return them   *)
(* in descending order and then noBit; when a step returns, the bits        *)
(* cleared so far are exactly the bits returned so far, and once noBit is   *)
(* returned the bitset is empty and size() is 0.                            *)
C2_DestructiveScan ==
    (entry = "init_scan" /\ Destructive(mode)) =>
        /\ Returns(out, InOrder(Bits(vbb0), mode))
        /\ Bits(vbb) = Bits(vbb0) \ Returned(out)
        /\ Finished(out) => (Bits(vbb) = {} /\ Size(nBB, vbb) = 0)

\* a destructive reverse scan that emptied a bitset of three bits
C2_Witness ==
    /\ entry = "init_scan" /\ mode = "DESTRUCTIVE_REVERSE"
    /\ Len(out) = 4 /\ out[4] = noBit
    /\ Cardinality(Bits(vbb0)) = 3 /\ Bits(vbb) = {}
    /\ WDIV(out[1]) # WDIV(out[3])

(* C4: after init_scan(f, NON_DESTRUCTIVE) the calls of next_bit() return    *)
(* the set bits strictly greater than f in ascending order and then noBit,  *)
(* after init_scan(f, NON_DESTRUCTIVE_REVERSE) the calls of prev_bit()      *)
(* return the set bits strictly smaller than f in descending order and then *)
(* noBit, whether or not bit f is set; with f = noBit the scan is that of   *)
(* init_scan(mode).                                                         *)
C4_StartingPoint ==
    (entry = "init_scan_first" /\ NonDestructive(mode)) =>
        /\ Returns(out, InOrder(Beyond(Bits(vbb0), first, mode), mode))
        /\ first = noBit =>
               BBScan_init_scan_first(nBB, scan, first, mode)
                   = BBScan_init_scan(nBB, scan, mode)

\* a forward scan from a set bit f that has set bits on both sides of f
C4_Witness ==
    /\ entry = "init_scan_first" /\ mode = "NON_DESTRUCTIVE"
    /\ first \in Bits(vbb0)
    /\ \E b \in Bits(vbb0) : b < first
    /\ Finished(out) /\ Len(out) >= 3

(* C3: a dense and a sparse scanning bitset that hold the same non-empty    *)
(* set of bits return the same values, ending in noBit, from               *)
(* init_scan(mode) and the scan steps of the mode, for each of the four    *)
(* modes, and after each step both still hold the same set of bits.        *)
C3_DenseSparseAgree ==
    (entry = "init_scan" /\ Bits(vbb0) # {}) =>
        /\ rc = "0"
        /\ sout = out
        /\ Returns(sout, InOrder(Bits(vbb0), mode))
        /\ SpBits(sp) = Bits(vbb)

\* a destructive reverse scan of both bitsets over two blocks that ended,
\* the sparse one keeping a record that never held a bit
C3_Witness ==
    /\ entry = "init_scan" /\ mode = "DESTRUCTIVE_REVERSE"
    /\ Cardinality(Bits(vbb0)) = 3 /\ Len(sp0) = 3
    /\ \E k \in DOMAIN sp0 : sp0[k].bb = ALL_ZEROS
    /\ Len(sout) = 4 /\ sout[4] = noBit
    /\ WDIV(sout[1]) # WDIV(sout[3])

(* C5: on a sparse scanning bitset with at least one record, after          *)
(* init_scan(f, NON_DESTRUCTIVE) the calls of next_bit() return the set     *)
(* bits strictly greater than f in ascending order and then noBit, and      *)
(* after init_scan(f, NON_DESTRUCTIVE_REVERSE) the calls of prev_bit()      *)
(* return the set bits strictly smaller than f in descending order and     *)
(* then noBit, also when f's block has no record.                          *)
C5_SparseStartingPoint ==
    (entry = "init_scan_first" /\ NonDestructive(mode) /\ sp0 # <<>>) =>
        Returns(sout, InOrder(Beyond(SpBits(sp0), first, mode), mode))

\* the one-bitset and the two-bitset scan step of mode m in this state
SingleStep(m) ==
    CASE m = "NON_DESTRUCTIVE" -> BBScan_next_bit(nBB, vbb, scan, obb)
      [] m = "NON_DESTRUCTIVE_REVERSE" -> BBScan_prev_bit(nBB, vbb, scan, obb)
      [] m = "DESTRUCTIVE" -> BBScan_next_bit_del(nBB, vbb, scan, obb)
      [] m = "DESTRUCTIVE_REVERSE" -> BBScan_prev_bit_del(nBB, vbb, scan, obb)

DualStep(m) ==
    CASE m = "NON_DESTRUCTIVE" -> BBScan_next_bit_dual(nBB, vbb, scan, obb)
      [] m = "NON_DESTRUCTIVE_REVERSE" ->
             BBScan_prev_bit_dual(nBB, vbb, scan, obb)
      [] m = "DESTRUCTIVE" -> BBScan_next_bit_del_dual(nBB, vbb, scan, obb)
      [] m = "DESTRUCTIVE_REVERSE" ->
             BBScan_prev_bit_del_dual(nBB, vbb, scan, obb)

(* C6: each two-bitset scan step of a dense bitset A with argument B        *)
(* returns what the one-bitset step returns and leaves A and the cursor as  *)
(* the one-bitset step does; B loses exactly the bits returned and nothing  *)
(* else, and is unchanged by a step that returns noBit.                    *)
C6_DenseDualStep ==
    entry = "init_scan" =>
        /\ DualStep(mode).ret = SingleStep(mode).ret
        /\ DualStep(mode).scan = SingleStep(mode).scan
        /\ DualStep(mode).vbb = SingleStep(mode).vbb
        /\ Bits(DualStep(mode).other) = Bits(obb) \ {DualStep(mode).ret}
        /\ Returns(out, InOrder(Bits(vbb0), mode))
        /\ Bits(obb) = Bits(obb0) \ Returned(out)

\* a forward scan of A that cleared a bit of the second block of B, left a
\* bit of B that A does not hold, and ended
C6_Witness ==
    /\ entry = "init_scan" /\ mode = "NON_DESTRUCTIVE"
    /\ Finished(out)
    /\ \E b \in Returned(out) : b >= WORD_SIZE /\ b \in Bits(obb0)
    /\ Bits(obb) # {} /\ Bits(obb) # Bits(obb0)

(* C7: each two-bitset scan step of a sparse bitset A with argument B that  *)
(* returns a bit b clears from B exactly the bit of global index b, in      *)
(* whichever block b lies, and no other bit of B.                          *)
C7_SparseDualStep ==
    (entry = "init_scan" /\ rc = "0") =>
        SpBits(osp) = SpBits(osp0) \ Returned(sout)

(* C8: on a sparse scanning bitset with no records init_scan(mode) and      *)
(* init_scan(first_bit, mode) fail with the empty-scan error for each of    *)
(* the four modes, and the failed call leaves the cursor and the record     *)
(* vector as they were.                                                    *)
C8_ScanOnEmpty ==
    (entry # "NONE" /\ sp0 = <<>>) =>
        /\ rc = "BitScanError"
        /\ sscan = sscan0
        /\ sp = sp0

\* init_scan(first_bit, DESTRUCTIVE_REVERSE) was called on an empty bitset
\* after an earlier call
C8_Witness ==
    /\ entry = "init_scan_first" /\ mode = "DESTRUCTIVE_REVERSE"
    /\ first # noBit /\ sp0 = <<>> /\ rc = "BitScanError"

(* C9: sparse invariant S1: starting from an empty sparse bitset, after any *)
(* sequence of mutations with arguments in range the record vector is      *)
(* strictly sorted by block index: no two records have the same index and  *)
(* no record precedes one with a smaller index.                            *)
C9_SortedRecords == Sorted(sp)

(* C10: for a sparse bitset satisfying S1 and 0 <= lo <= hi < 64 * N, after  *)
(* set_bit(lo, hi) is_bit(x) holds for exactly the x in lo..hi and the x    *)
(* that were set before the call, and size() is the number of such x,      *)
(* wherever the range lies relative to the records.                        *)
C10_SetBitRange ==
    (entry = "set_bit" /\ Sorted(sp0)) =>
        LET want == SpBits(sp0) \cup (first .. last)
        IN  /\ \A x \in 0 .. (WMUL(nBB) - 1) :
                   BitSetSp_is_bit(sp, x) <=> x \in want
            /\ BitSetSp_size(sp) = Cardinality(want)

\* the indices of the records of a sparse bitset, in the order of the records
Indices(s) == [k \in DOMAIN s |-> s[k].idx]

\* block i of a sparse bitset, a block without a record counting as zero
BlockOf(s, i) == UNION {s[k].bb : k \in {j \in DOMAIN s : s[j].idx = i}}

(* C11: for sparse bitsets A and B of equal capacity with sorted records,   *)
(* A |= B leaves A holding exactly the union of the bits of old A and B,    *)
(* block by block, and A ^= B exactly their symmetric difference; both     *)
(* leave B unchanged and the records of A strictly sorted.                 *)
C11_OrXorAssign ==
    /\ entry = "|=" =>
           /\ \A i \in Blocks(nBB) :
                  BlockOf(sp, i) = BlockOf(sp0, i) \cup BlockOf(osp0, i)
           /\ SpBits(sp) = SpBits(sp0) \cup SpBits(osp0)
           /\ osp = osp0 /\ Sorted(sp)
    /\ entry = "^=" =>
           /\ \A i \in Blocks(nBB) :
                  BlockOf(sp, i) = Xor(BlockOf(sp0, i), BlockOf(osp0, i))
           /\ SpBits(sp) = Xor(SpBits(sp0), SpBits(osp0))
           /\ osp = osp0 /\ Sorted(sp)

\* A |= B with a record of B below the only record of A, which made the call
\* sort, and a bit of each in the result
C11_Witness ==
    /\ entry = "|=" /\ Len(sp0) = 1 /\ Len(sp) = 2
    /\ sp0[1].idx = 1 /\ osp0[1].idx = 0
    /\ sp[1].bb # ALL_ZEROS /\ sp[2].bb # ALL_ZEROS

(* C12: for sparse bitsets A and B of equal capacity with sorted records,   *)
(* A &= B leaves A holding exactly the intersection of old A and B and      *)
(* erase_bit(B) exactly old A minus B; both leave B unchanged and neither   *)
(* adds, removes nor reorders records of A: under &= a record of A whose    *)
(* block has no record in B keeps its index with no bits.                  *)
C12_AndEraseAssign ==
    /\ entry = "&=" =>
           /\ SpBits(sp) = SpBits(sp0) \cap SpBits(osp0)
           /\ osp = osp0 /\ Indices(sp) = Indices(sp0)
           /\ \A k \in DOMAIN sp :
                  (\A j \in DOMAIN osp0 : osp0[j].idx # sp[k].idx)
                      => sp[k].bb = ALL_ZEROS
    /\ entry = "erase_bit" =>
           /\ SpBits(sp) = SpBits(sp0) \ SpBits(osp0)
           /\ osp = osp0 /\ Indices(sp) = Indices(sp0)

\* A &= B where A had bits in a block beyond the last record of B and in a
\* block they share
C12_Witness ==
    /\ entry = "&=" /\ Len(sp0) = 2 /\ Len(osp0) = 1 /\ osp0[1].idx = 0
    /\ sp0[2].bb # ALL_ZEROS /\ sp[2].bb = ALL_ZEROS
    /\ sp[1].bb # ALL_ZEROS /\ sp[1].bb # sp0[1].bb

(* C13: for sparse bitsets this and rhs with sorted records and blocks      *)
(* 0 <= first <= last < N, set_block(first, last, rhs) leaves every block   *)
(* i in first..last of this equal to old block i OR block i of rhs, every   *)
(* other block of this and rhs unchanged, and the records of this strictly  *)
(* sorted; the call reads no record at or beyond the end of the vector.     *)
C13_SetBlock ==
    entry = "set_block" =>
        /\ \A i \in Blocks(nBB) :
               BlockOf(sp, i) = IF i \in first .. last
                                THEN BlockOf(sp0, i) \cup BlockOf(osp0, i)
                                ELSE BlockOf(sp0, i)
        /\ osp = osp0 /\ Sorted(sp)
        /\ rc # "oob"

---------------------------------------------------------------------------
(* What the window of a sentinel bitset is to be *)

\* the sentinel invariant: every block outside l..h is zero, and a window
\* other than (noBit, noBit) lies within the n blocks
SentinelInv(n, v, l, h) ==
    /\ \A i \in Blocks(n) : (i < l \/ i > h) => v[i] = ALL_ZEROS
    /\ <<l, h>> # <<noBit, noBit>> => (0 <= l /\ l <= h /\ h < n)

\* the calls that leave the invariant as they find it (a scan step leaves
\* entry at "init_scan")
Preserving ==
    {"erase_bit(int)", "erase_bit()", "erase_bit(bbn)", "&=",
     "erase_bit_and_update", "update_sentinels", "update_sentinels_high",
     "update_sentinels_low", "update_sentinels_to_v", "is_empty",
     "init_scan"}

lowHit(v2, l, b) == WDIV(b) = l /\ v2[l] = ALL_ZEROS
highHit(v2, h, b) == WDIV(b) = h /\ v2[h] = ALL_ZEROS

C16_IsEmpty ==
    entry = "is_empty" =>
        (rc = "true" <=> \A i \in Blocks(nBB) : vbb[i] = ALL_ZEROS)

(* C17: after update_sentinels(), whatever the window was before the call,  *)
(* low is the first and high the last non-zero block of the bitset and the  *)
(* call has returned 0; if every block is zero both sentinels are noBit and *)
(* the call has returned EMPTY_ELEM.                                        *)
C17_UpdateSentinels ==
    entry = "update_sentinels" =>
        IF \A i \in Blocks(nBB) : vbb[i] = ALL_ZEROS
        THEN m_BBL = noBit /\ m_BBH = noBit /\ rc = "-1"
        ELSE /\ m_BBL = FirstNonZero(vbb, 0, nBB - 1)
             /\ m_BBH = LastNonZero(vbb, 0, nBB - 1)
             /\ rc = "0"

(* C18: on a sentinel bitset satisfying the invariant, set_bit(v) followed  *)
(* by update_sentinels_to_v(v) leaves a window with low <= block(v) <= high *)
(* that contains every block of the window before (the empty window        *)
(* becomes (block(v), block(v))); update_sentinels_to_v changes no block,   *)
(* and the invariant holds again.  The step checked is the call of          *)
(* update_sentinels_to_v(v) in the state set_bit(v) has left: win0 is the   *)
(* window set_bit found, and the blocks it found are those of vbb, bit v    *)
(* apart.                                                                   *)
C18_SetBitUpdateToV ==
    [][(/\ entry = "set_bit"
        /\ entry' = "update_sentinels_to_v" /\ first' = first
        /\ SentinelInv(nBB, DenseOf(nBB, Bits(vbb) \ {first}), win0[1],
                       win0[2]))
       => LET bb == WDIV(first')
          IN  /\ m_BBL' <= bb /\ bb <= m_BBH'
              /\ IF win0 = <<noBit, noBit>>
                 THEN m_BBL' = bb /\ m_BBH' = bb
                 ELSE m_BBL' <= win0[1] /\ win0[2] <= m_BBH'
              /\ vbb' = vbb
              /\ SentinelInv(nBB', vbb', m_BBL', m_BBH')]_vars

\* the window (0, 0) has grown to (0, 2) for bit 128, the only bit of block 2
C18_Witness ==
    /\ entry = "update_sentinels_to_v" /\ first = 128
    /\ win0 = <<0, 0>> /\ m_BBL = 0 /\ m_BBH = 2
    /\ vbb[0] # ALL_ZEROS /\ vbb[1] = ALL_ZEROS /\ vbb[2] = mask(0)

\* what C19 tells of a destructive scan of a sentinel bitset, begun on the
\* blocks vbb0 with the window win0, in the state its last step has left:
\* sentinel is the one the steps of mode move
ScanTracked(sentinel) ==
    /\ Returns(out, InOrder(Bits(vbb0), mode))
    /\ (out # <<>> /\ out[Len(out)] # noBit)
           => sentinel = WDIV(out[Len(out)])
    /\ SentinelInv(nBB, vbb, m_BBL, m_BBH)

(* C19: on a sentinel bitset whose window satisfies the invariant,           *)
(* init_scan(DESTRUCTIVE) and the calls of next_bit_del() return the bits   *)
(* in ascending order and then noBit, and after a step that returned a bit  *)
(* low is the block of that bit; init_scan(DESTRUCTIVE_REVERSE) and the     *)
(* calls of prev_bit_del() return them in descending order and then noBit,  *)
(* and after a step that returned a bit high is its block; the invariant    *)
(* holds after every step.                                                  *)
C19_SentinelDestructiveScan ==
    (/\ entry = "init_scan" /\ Destructive(mode)
     /\ SentinelInv(nBB, vbb0, win0[1], win0[2]))
        => ScanTracked(IF Forward(mode) THEN m_BBL ELSE m_BBH)

(* C20: when B is move-constructed or move-assigned from a distinct A (both *)
(* BBScan, or both BBSentinel), B has afterwards the capacity, the blocks,  *)
(* the cursor and, for BBSentinel, the window A had before, so that         *)
(* next_bit() on B returns what next_bit() on A would have returned; and A  *)
(* is left with capacity 0, no blocks, the cursor (noBit, MASK_LIM) and,    *)
(* for BBSentinel, the window (noBit, noBit).  A scan begun on A with at    *)
(* least one bit, within the invariant, and continued on B returns the bits *)
(* of A in ascending order and then noBit.                                   *)
C20_MoveSafety ==
    /\ [][(entry' \in Moves /\ entry \notin Moves) =>
            LET b == other'.obj
            IN  /\ b.nBB = nBB /\ b.vbb = vbb /\ b.scan = scan
                /\ other.class = "BBSentinel"
                       => (b.m_BBL = m_BBL /\ b.m_BBH = m_BBH)
                /\ (mode = "NON_DESTRUCTIVE" /\ out # <<>>)
                       => \A g \in GarbageWords :
                              next_bit(b, g).ret = next_bit(ObjA, g).ret
                /\ nBB' = 0 /\ vbb' = << >> /\ scan' = scan_t
                /\ other.class = "BBSentinel"
                       => (m_BBL' = noBit /\ m_BBH' = noBit)]_vars
    /\ []((/\ entry \in Moves /\ mode = "NON_DESTRUCTIVE"
           /\ Bits(vbb0) # {}
           /\ other.class = "BBSentinel"
                  => SentinelInv(other.obj.nBB, vbb0, win0[1], win0[2]))
              => Returns(out, AscSeq(Bits(vbb0))))

\* B, move-assigned from A in the middle of a scan, went on to return the
\* bit of A's second block and then noBit; the bit B held before is gone
C20_Witness ==
    /\ entry = "move_assign" /\ mode = "NON_DESTRUCTIVE"
    /\ out = <<0, 64, noBit>>
    /\ nBB = 0 /\ other.obj.nBB = 2 /\ Bits(other.obj.vbb) = {0, 64}

\* the bits of a bitset of n blocks
AllBits(n) == 0 .. (WMUL(n) - 1)

(* C21: for sparse bitsets A and B of equal capacity N, flip() leaves A      *)
(* denoting [0, 64*N) minus the bits it denoted, so that a second flip()    *)
(* restores them; flip() after A |= B leaves A denoting the bits of         *)
(* (flip A) &= (flip B), and flip() after A &= B those of                   *)
(* (flip A) |= (flip B), A and B as they were before the |= or &=.          *)
C21_DeMorgan ==
    [][entry' = "flip" =>
         /\ SpBits(sp') = AllBits(nBB) \ SpBits(sp)
         /\ SpBits(BitSetSp_flip(nBB, sp')) = SpBits(sp)
         /\ entry = "|=" =>
                SpBits(sp') = SpBits(BitSetSp_and_assign(
                                         BitSetSp_flip(nBB, sp0),
                                         BitSetSp_flip(nBB, osp0)))
         /\ entry = "&=" =>
                \A v \in BitSetSp_or_assign(BitSetSp_flip(nBB, sp0),
                                            BitSetSp_flip(nBB, osp0)) :
                    SpBits(sp') = SpBits(v)]_vars

\* the complement of a union that held bit 64 of B and a record without
\* bits for block 0: block 0 is full and block 1 lacks bit 64
C21_Witness ==
    /\ entry = "flip" /\ nBB = 2
    /\ SpBits(osp) = {64} /\ SpBits(sp0) = {64}
    /\ Len(sp0) = 2 /\ sp0[1].bb = ALL_ZEROS
    /\ Len(sp) = 2 /\ sp[1].bb = ALL_ONES /\ sp[2].bb = Not(mask(0))

(* C22: AND(lhs, rhs, res), rhs and res sentinel bitsets of equal capacity   *)
(* and the window of rhs within the invariant, leaves res holding exactly   *)
(* the bits of lhs AND rhs, whatever bits res held, with the window of res  *)
(* the range of its non-zero blocks, and indexes no block outside [0, N),   *)
(* the empty window of rhs included.                                        *)
C22_And ==
    entry = "AND" =>
        /\ rc # "oob"
        /\ Bits(vbb) = Bits(other.lhs) \cap Bits(other.rhs.vbb)
        /\ m_BBL = FirstNonZero(vbb, 0, nBB - 1)
        /\ m_BBH = LastNonZero(vbb, 0, nBB - 1)

(* C23: the copy assignment a = b between sentinel bitsets of equal         *)
(* capacity leaves every block of a equal to the block of b and the window  *)
(* of a equal to the window of b, whatever bits and window a had.           *)
C23_CopyAssign ==
    entry = "=" =>
        /\ vbb = other.vbb
        /\ m_BBL = other.m_BBL /\ m_BBH = other.m_BBH

\* the scan step of mode m on the dense bitset v of n blocks with cursor sc
DenseStep(m, n, v, sc) ==
    CASE m = "NON_DESTRUCTIVE" -> BBScan_next_bit(n, v, sc, v)
      [] m = "NON_DESTRUCTIVE_REVERSE" -> BBScan_prev_bit(n, v, sc, v)
      [] m = "DESTRUCTIVE" -> BBScan_next_bit_del(n, v, sc, v)
      [] m = "DESTRUCTIVE_REVERSE" -> BBScan_prev_bit_del(n, v, sc, v)

\* the scan step of mode m on the sparse bitset s with cursor sc
SparseStep(m, s, sc) ==
    LET g == CHOOSE x \in Garbage : TRUE
    IN  CASE m = "NON_DESTRUCTIVE" -> BBScanSp_next_bit(s, sc, s, g)
          [] m = "NON_DESTRUCTIVE_REVERSE" -> BBScanSp_prev_bit(s, sc, s, g)
          [] m = "DESTRUCTIVE" -> BBScanSp_next_bit_del(s, sc, s, g)
          [] m = "DESTRUCTIVE_REVERSE" -> BBScanSp_prev_bit_del(s, sc, s, g)

\* k steps of mode m taken on a bitset alone: the values returned, and the
\* blocks and the cursor left
RECURSIVE DenseAlone(_, _, _, _, _)
DenseAlone(m, n, v, sc, k) ==
    IF k = 0 THEN [out |-> <<>>, vbb |-> v, scan |-> sc]
    ELSE LET p == DenseAlone(m, n, v, sc, k - 1)
             r == DenseStep(m, n, p.vbb, p.scan)
         IN  [out |-> Append(p.out, r.ret), vbb |-> r.vbb, scan |-> r.scan]

RECURSIVE SparseAlone(_, _, _, _)
SparseAlone(m, s, sc, k) ==
    IF k = 0 THEN [out |-> <<>>, vbb |-> s, scan |-> sc]
    ELSE LET p == SparseAlone(m, s, sc, k - 1)
             r == SparseStep(m, p.vbb, p.scan)
         IN  [out |-> Append(p.out, r.ret), vbb |-> r.vbb, scan |-> r.scan]

AtLeast(s, i) == {k \in DOMAIN s : s[k].idx >= i}

(* C25: find_block(idx) returns the bits of the record of index idx when    *)
(* there is one, and otherwise a value that no record with bits can hold;   *)
(* find_block_pos(idx) returns true and the position of the record of index *)
(* idx when there is one, and otherwise false with the position of the      *)
(* first record of a greater index, or with noBit when there is none.       *)
C25_FindBlock ==
    /\ entry = "find_block" =>
           IF \E k \in DOMAIN sp : sp[k].idx = first
           THEN \E k \in DOMAIN sp : sp[k].idx = first /\ other.bb = sp[k].bb
           ELSE other.bb = ALL_ZEROS
    /\ entry = "find_block_pos" =>
           IF \E k \in DOMAIN sp : sp[k].idx = first
           THEN other.first /\ sp[other.second + 1].idx = first
           ELSE /\ ~other.first
                /\ other.second = IF AtLeast(sp, first) = {} THEN noBit
                                  ELSE Min(AtLeast(sp, first)) - 1

\* find_block_pos alone, as C25 has it
C25_FindBlockPosOnly ==
    entry = "find_block_pos" =>
        IF \E k \in DOMAIN sp : sp[k].idx = first
        THEN other.first /\ sp[other.second + 1].idx = first
        ELSE /\ ~other.first
             /\ other.second = IF AtLeast(sp, first) = {} THEN noBit
                               ELSE Min(AtLeast(sp, first)) - 1

\* find_block of a block that has a record, as C25 has it
C25_FindBlockPresent ==
    (entry = "find_block" /\ \E k \in DOMAIN sp : sp[k].idx = first) =>
        \E k \in DOMAIN sp : sp[k].idx = first /\ other.bb = sp[k].bb


(* C26: every implementation of lsb returns, for a word that is not zero,   *)
(* the offset in 0..63 of its least-significant 1-bit, and every            *)
(* implementation of msb that of its most-significant 1-bit; for the word   *)
(* zero each of them returns noBit.                                         *)
C26_BitScanAgree ==
    /\ entry \in LsbNames =>
           first = IF vbb[0] = {} THEN noBit
                   ELSE CHOOSE i \in vbb[0] : \A j \in vbb[0] : i <= j
    /\ entry \in MsbNames =>
           first = IF vbb[0] = {} THEN noBit
                   ELSE CHOOSE i \in vbb[0] : \A j \in vbb[0] : i >= j

\* the de Bruijn lsb was called on a word whose lowest bit is in the third
\* 16-bit part and whose highest in the fourth
C26_Witness ==
    /\ entry = "lsb64_de_Bruijn" /\ first = 37
    /\ vbb[0] = 37 .. 50


\* the bits of the records of s that are not zero
NonZeroBits(s) ==
    SpBits(SelectSeq(s, LAMBDA r : r.bb # ALL_ZEROS))

(* C27: after a successful init_scan of any of the four modes on a sparse   *)
(* bitset, the scan steps return the bits of the records that are not zero, *)
(* in the order of the scan, wherever the records without bits lie, and     *)
(* then noBit (on the first step when every record is without bits); the    *)
(* sequence of the indices of the records stays what it was, a destructive  *)
(* scan clearing the bits it returned and nothing else.                     *)
C27_ZeroRecords ==
    (entry = "init_scan" /\ rc = "0") =>
        /\ Returns(sout, InOrder(NonZeroBits(sp0), mode))
        /\ (NonZeroBits(sp0) = {} /\ sout # <<>>) => sout[1] = noBit
        /\ Indices(sp) = Indices(sp0)
        /\ SpBits(sp) = IF Destructive(mode)
                        THEN SpBits(sp0) \ Returned(sout) ELSE SpBits(sp0)

\* a reverse destructive scan has ended on three records, the middle one
\* without bits from the start
C27_Witness ==
    /\ entry = "init_scan" /\ rc = "0" /\ mode = "DESTRUCTIVE_REVERSE"
    /\ Len(sp0) = 3 /\ sp0[2].bb = ALL_ZEROS
    /\ sp0[1].bb # ALL_ZEROS /\ sp0[3].bb # ALL_ZEROS
    /\ Finished(sout) /\ Len(sout) = 4


(* C28: once a scan step on a dense or on a sparse scanning bitset has       *)
(* returned noBit, a further step of the same scan returns noBit again and  *)
(* leaves the cursor and every block as they are.                           *)
C28_ExhaustionStable ==
    [][/\ (Finished(out) /\ Len(out') = Len(out) + 1) =>
              /\ out'[Len(out')] = noBit
              /\ scan' = scan /\ vbb' = vbb
       /\ (Finished(sout) /\ Len(sout') = Len(sout) + 1) =>
              /\ sout'[Len(sout')] = noBit
              /\ sscan' = sscan /\ sp' = sp]_vars

\* a forward scan of a dense and of a sparse bitset, each of two bits, where
\* both have returned noBit twice
C28_Witness ==
    /\ entry = "init_scan" /\ mode = "NON_DESTRUCTIVE"
    /\ Len(out) = 4 /\ out[3] = noBit /\ out[4] = noBit
    /\ Len(sout) = 4 /\ sout[3] = noBit /\ sout[4] = noBit


(* C29: after init_scan(mode) on a sentinel bitset every scan step          *)
(* (next_bit, next_bit_del, next_bit_del(other), prev_bit_del) indexes only *)
(* the blocks 0..N-1; on a bitset without bits, where init_scan leaves the  *)
(* window (noBit, noBit), the first step returns noBit.                     *)
C29_ScanInBounds ==
    (entry = "init_scan" /\ out # <<>>) =>
        /\ rc # "oob"
        /\ Bits(vbb0) = {} => out[1] = noBit

\* C29 for the scans of a bitset that held a bit when init_scan was called
\* with the window of the constructor
C29_NonEmptyInBounds ==
    (/\ entry = "init_scan" /\ out # <<>>
     /\ Bits(vbb0) # {} /\ win0 = <<0, nBB - 1>>) => rc # "oob"


\* the last bit among the values o that the steps returned, noBit if none
RECURSIVE LastBit(_)
LastBit(o) ==
    IF o = <<>> THEN noBit
    ELSE IF o[Len(o)] # noBit THEN o[Len(o)]
    ELSE LastBit(SubSeq(o, 1, Len(o) - 1))

\* a step of the scan returns the smallest bit now set that is greater than
\* the last bit returned, noBit if there is none
StepReturnsNext ==
    LET S == {b \in SpBits(sp) : b > LastBit(sout)}
    IN  sout'[Len(sout')] = IF S = {} THEN noBit ELSE Min(S)

(* C30: each step of a forward non-destructive scan of a sparse bitset      *)
(* returns the smallest bit set at that moment that is greater than the bit *)
(* returned before, so that the bits returned increase strictly, also when  *)
(* records are inserted into the bitset between two steps.                  *)
C30_ScanWithInsertions ==
    [][(rc = "0" /\ Len(sout') = Len(sout) + 1) => StepReturnsNext]_vars

\* C30 for the steps taken while no insertion has put another record at the
\* cursor's position
C30_InsertionsBehind ==
    [][(rc = "0" /\ Len(sout') = Len(sout) + 1 /\ ~other.front)
           => StepReturnsNext]_vars

=============================================================================
